---- MODULE Spec2Model ----
(***************************************************************************)
(* Draft session state machine of the fantasy draft assistant              *)
(* (src/src/stores/draftStore.ts, the store created at line 288) together  *)
(* with the draft room that drives it (src/src/components/DraftRoom.tsx).  *)
(*                                                                         *)
(* Team indexes are 0-based as in the code; teams is a TLA+ sequence, so   *)
(* the team with index i is teams[i + 1].  A player is identified by its   *)
(* id (an integer); PlayerName gives the name the undo sorts by.           *)
(*                                                                         *)
(* The user preferences store (src/src/stores/userPreferencesStore.ts) is  *)
(* part of the state: generateRecommendations reads it when the page       *)
(* exposes it as window.userPreferencesStore.  Values (value over          *)
(* replacement, weekly points, adjusted values) are integers counting      *)
(* thousandths, so that the rounding to two decimals is computed exactly.  *)
(***************************************************************************)
EXTENDS Integers, Sequences, FiniteSets, TLC

VARIABLES
    settings,           \* DraftSettings | null
    teams,              \* DraftTeam[]: sequence of [roster, isUser]
    availablePlayers,   \* Player[]
    picks,              \* DraftPick[]: sequence of [pickNumber, teamIndex, player]
    currentPick,
    currentTeamIndex,
    timeRemaining,
    isActive,
    recommendations,    \* PlayerRecommendation[]: [player, value, reach, positionalNeed]
    playerNotes,        \* PlayerNote[] of the preferences store
    favoriteTeams,      \* string[] of the preferences store, as a set
    avoidTeams,         \* string[] of the preferences store, as a set
    hasPreferencesStore,\* whether window.userPreferencesStore is defined
    adjusted,           \* history: the last calculateAdjustedValue call and its result
    draftSettings,      \* settingsStore.draftSettings
    interval,           \* the interval of DraftRoom's timer effect, or null
    database,           \* PlayerDatabase.players: Map from id to Player
    mergeResult,        \* the PlayerMergeResult of the last merge
    imported,           \* the records handed to the last merge, as it left them
    load,               \* history: the last merge call and the pool before it
    initialPlayers,     \* history: the players handed to the last initializeDraft
    op,                 \* history: the last operation and its arguments
    pre                 \* history: the session state before the last operation

storeVars == <<settings, teams, availablePlayers, picks, currentPick,
               currentTeamIndex, timeRemaining, isActive>>
prefVars == <<playerNotes, favoriteTeams, avoidTeams, hasPreferencesStore, adjusted>>
dbVars == <<database, mergeResult, imported, load>>
vars == <<settings, teams, availablePlayers, picks, currentPick,
          currentTeamIndex, timeRemaining, isActive, recommendations,
          playerNotes, favoriteTeams, avoidTeams, hasPreferencesStore, adjusted,
          draftSettings, interval, database, mergeResult, imported, load,
          initialPlayers, op, pre>>

(***************************************************************************)
(* Bounds of the model.                                                    *)
(***************************************************************************)
MaxTeams == 2
NumPlayers == 3
MaxPicks == 2
MaxTimeLimit == 1
MaxNotePlayers == 2
MaxNotes == 1
MaxRecords == 3
MaxTimerLimit == 2

(***************************************************************************)
(* Values.                                                                 *)
(***************************************************************************)
Null == [null |-> TRUE]

DefaultTimeRemaining == 120

Players == 1 .. NumPlayers

\* Player.name, as the key undoLastPick sorts by: not monotonic in the id.
PlayerName(p) == (7 * p) % 16

DraftTypes == {"snake", "linear"}

Range(s) == {s[i] : i \in DOMAIN s}

RECURSIVE SeqOfRange(_, _)
SeqOfRange(a, b) == IF a > b THEN <<>> ELSE <<a>> \o SeqOfRange(a + 1, b)

\* playerDatabase.getAllPlayers() as the setup screens pass it on.
AllPlayers == SeqOfRange(1, NumPlayers)

\* Player.position: the players of the pool are two running backs, a
\* quarterback, a receiver, a kicker and a tight end, and so on.
PositionTable == <<"RB", "RB", "QB", "WR", "K", "TE">>
PlayerPosition(p) == PositionTable[((p - 1) % 6) + 1]

\* 'vorp' in player: the offensive players carry vorp and fps, the others
\* (kickers, defenses, IDP) carry neither.
OffensivePositions == {"QB", "RB", "WR", "TE"}
HasVorp(p) == PlayerPosition(p) \in OffensivePositions

\* Player.vorp in thousandths: two equal values, a zero and a negative one.
VorpTable == <<8000, 12500, 3000, 0 - 1500, 0, 8000>>
PlayerVorp(p) == VorpTable[((p - 1) % 6) + 1]

\* 'vorp' in player ? player.vorp : ('fps' in player ? player.fps : 0)
BaseValue(p) == IF HasVorp(p) THEN PlayerVorp(p) ELSE 0

\* Player.team
NflTeams == {"PIT", "BAL", "KC"}
TeamTable == <<"PIT", "BAL", "KC">>
PlayerTeam(p) == TeamTable[((p - 1) % 3) + 1]

\* The keys of DraftSettings.rosterPositions.
RosterSlotNames ==
    {"QB", "RB", "WR", "TE", "W-R-T", "K", "DEF", "DB", "DL", "LB", "BN", "IR"}

FlexPositions == {"RB", "WR", "TE"}

\* A rosterPositions object with the given counts and 0 everywhere else.
RosterPositions(qb, rb, flex) ==
    [slot \in RosterSlotNames |->
        CASE slot = "QB" -> qb
          [] slot = "RB" -> rb
          [] slot = "W-R-T" -> flex
          [] OTHER -> 0]

\* DraftSetup.defaultSettings.rosterPositions
DefaultRosterPositions ==
    [slot \in RosterSlotNames |->
        CASE slot = "QB" -> 1
          [] slot = "RB" -> 2
          [] slot = "WR" -> 3
          [] slot = "TE" -> 1
          [] slot = "W-R-T" -> 2
          [] slot = "BN" -> 6
          [] OTHER -> 1]

\* Object.values(rosterPositions).reduce((a, b) => a + b, 0)
RECURSIVE SumOver(_, _)
SumOver(f, keys) ==
    IF keys = {} THEN 0
    ELSE LET k == CHOOSE x \in keys : TRUE
         IN  f[k] + SumOver(f, keys \ {k})

TotalRosterSlots(s) == SumOver(s.rosterPositions, RosterSlotNames)

(***************************************************************************)
(* JavaScript arithmetic.                                                  *)
(***************************************************************************)
\* a % b of JavaScript for b > 0: the sign follows the dividend.
JsRem(a, b) == IF a >= 0 THEN a % b ELSE 0 - ((0 - a) % b)

\* Math.ceil(a / b) for a >= 0, b > 0.
MathCeilDiv(a, b) == (a + b - 1) \div b

\* Math.floor(a / b) for a >= 0, b > 0.
MathFloorDiv(a, b) == a \div b

\* Math.round(x * 100) / 100 for x = n / d thousandths, d > 0, in
\* thousandths: Math.round takes halves upwards, also below zero.
RoundToCents(n, d) == 10 * ((2 * n + 10 * d) \div (20 * d))

(***************************************************************************)
(* Array helpers.                                                          *)
(***************************************************************************)
\* array.filter(p => p.id !== id)
RECURSIVE FilterOut(_, _)
FilterOut(s, id) ==
    IF s = <<>> THEN <<>>
    ELSE IF Head(s) = id THEN FilterOut(Tail(s), id)
         ELSE <<Head(s)>> \o FilterOut(Tail(s), id)

\* One step of a stable sort: x goes behind every element whose name is not
\* greater than its own.
RECURSIVE InsertByName(_, _)
InsertByName(x, s) ==
    IF s = <<>> THEN <<x>>
    ELSE IF PlayerName(Head(s)) <= PlayerName(x)
         THEN <<Head(s)>> \o InsertByName(x, Tail(s))
         ELSE <<x>> \o s

\* array.sort((a, b) => a.name.localeCompare(b.name)): a stable sort by name.
RECURSIVE SortByName(_)
SortByName(s) ==
    IF s = <<>> THEN <<>>
    ELSE InsertByName(s[Len(s)], SortByName(SubSeq(s, 1, Len(s) - 1)))

\* teams.map((team, index) => index === teamIndex ? {...team, roster: [...team.roster, player]} : team)
AddToRoster(ts, teamIndex, player) ==
    [i \in DOMAIN ts |->
        IF i - 1 = teamIndex
        THEN [ts[i] EXCEPT !.roster = Append(@, player)]
        ELSE ts[i]]

\* A variant that empties the roster of the team.
RemoveFromRosterEverything(ts, teamIndex, player) ==
    [i \in DOMAIN ts |->
        IF i - 1 = teamIndex
        THEN [ts[i] EXCEPT !.roster = <<>>]
        ELSE ts[i]]

\* teams.map((team, index) => index === teamIndex ? {...team, roster: team.roster.filter(...)} : team)
RemoveFromRoster(ts, teamIndex, player) ==
    [i \in DOMAIN ts |->
        IF i - 1 = teamIndex
        THEN [ts[i] EXCEPT !.roster = FilterOut(@, player)]
        ELSE ts[i]]

\* Array.from({ length: numberOfTeams }, (_, index) => ({ roster: [], isUser: index === userTeamIndex }))
MakeTeams(numberOfTeams, userTeamIndex) ==
    [i \in 1 .. numberOfTeams |-> [roster |-> <<>>, isUser |-> (i - 1 = userTeamIndex)]]

(***************************************************************************)
(* The preferences store: notes and the adjusted value.                    *)
(*                                                                         *)
(* A note is [playerId, isTarget, isAvoid, customRanking]; the optional    *)
(* customRanking is <<>> when undefined and <<r>> when set.  The text of   *)
(* a note is not part of the model: no decision of the program reads it.   *)
(***************************************************************************)
\* playerNotes.find(n => n.playerId === playerId) finds something
HasNote(notes, playerId) == \E i \in DOMAIN notes : notes[i].playerId = playerId

\* playerNotes.find(n => n.playerId === playerId): the first such note
FindNote(notes, playerId) ==
    LET i == CHOOSE j \in DOMAIN notes :
                 /\ notes[j].playerId = playerId
                 /\ \A k \in 1 .. j - 1 : notes[k].playerId # playerId
    IN  notes[i]

\* { ...n, ...updates }
Merge(n, updates) ==
    [f \in DOMAIN n |-> IF f \in DOMAIN updates THEN updates[f] ELSE n[f]]

\* addPlayerNote: the playerNotes it sets.  An existing note only gets the
\* new text.
AddedPlayerNote(notes, playerId) ==
    IF HasNote(notes, playerId)
    THEN notes
    ELSE Append(notes, [playerId |-> playerId, isTarget |-> FALSE,
                        isAvoid |-> FALSE, customRanking |-> <<>>])

\* updatePlayerNote: the playerNotes it sets
UpdatedPlayerNote(notes, playerId, updates) ==
    [i \in DOMAIN notes |->
        IF notes[i].playerId = playerId THEN Merge(notes[i], updates) ELSE notes[i]]

\* removePlayerNote: playerNotes.filter(n => n.playerId !== playerId)
RECURSIVE RemovedPlayerNote(_, _)
RemovedPlayerNote(notes, playerId) ==
    IF notes = <<>> THEN <<>>
    ELSE IF Head(notes).playerId = playerId
         THEN RemovedPlayerNote(Tail(notes), playerId)
         ELSE <<Head(notes)>> \o RemovedPlayerNote(Tail(notes), playerId)

\* note?.isTarget || false
isPlayerTarget(playerId) ==
    HasNote(playerNotes, playerId) /\ FindNote(playerNotes, playerId).isTarget

\* note?.isAvoid || false
isPlayerAvoid(playerId) ==
    HasNote(playerNotes, playerId) /\ FindNote(playerNotes, playerId).isAvoid

\* note?.customRanking
getCustomRanking(playerId) ==
    IF HasNote(playerNotes, playerId)
    THEN FindNote(playerNotes, playerId).customRanking
    ELSE <<>>

\* The body of calculateAdjustedValue over the notes given: 1.2, 0.6, 1.1
\* and 0.9 are the tenths 12, 6, 11 and 9, a custom ranking r stands for the
\* value 2 r.  The products are exact here, floating point in the code.
AdjustedValue(notes, player, baseValue) ==
    IF ~HasNote(notes, player) THEN baseValue
    ELSE LET note == FindNote(notes, player)
             start == IF note.customRanking # <<>>
                      THEN note.customRanking[1] * 2000
                      ELSE baseValue
             flag == IF note.isTarget THEN 12 ELSE IF note.isAvoid THEN 6 ELSE 10
             favoriteBoost == IF PlayerTeam(player) \in favoriteTeams THEN 11 ELSE 10
             avoidPenalty == IF PlayerTeam(player) \in avoidTeams THEN 9 ELSE 10
         IN  RoundToCents(start * flag * favoriteBoost * avoidPenalty, 1000)

\* calculateAdjustedValue with the custom ranking added to the base value
\* instead of replacing it.
calculateAdjustedValueAddingRank(player, baseValue) ==
    IF ~HasNote(playerNotes, player) THEN baseValue
    ELSE LET note == FindNote(playerNotes, player)
             start == IF note.customRanking # <<>>
                      THEN baseValue + note.customRanking[1] * 2000
                      ELSE baseValue
             flag == IF note.isTarget THEN 12 ELSE IF note.isAvoid THEN 6 ELSE 10
             favoriteBoost == IF PlayerTeam(player) \in favoriteTeams THEN 11 ELSE 10
             avoidPenalty == IF PlayerTeam(player) \in avoidTeams THEN 9 ELSE 10
         IN  RoundToCents(start * flag * favoriteBoost * avoidPenalty, 1000)

\* calculateAdjustedValue(player, baseValue) on the notes of the store
calculateAdjustedValue(player, baseValue) ==
    AdjustedValue(playerNotes, player, baseValue)

(***************************************************************************)
(* Turn order.                                                             *)
(***************************************************************************)
\* makePick's computation with the end of an odd round wrapping to team 0,
\* as the linear branch does.
MakePickNextTeamIndexWrapping(s, pick, teamIndex) ==
    LET totalTeams == s.numberOfTeams
        round == MathCeilDiv(pick, totalTeams)
        pickInRound == JsRem(pick - 1, totalTeams) + 1
    IN  IF s.draftType = "snake"
        THEN IF JsRem(round, 2) = 1
             THEN (IF pickInRound = totalTeams THEN 0 ELSE pickInRound)
             ELSE (IF pickInRound = totalTeams THEN 0 ELSE totalTeams - pickInRound)
        ELSE JsRem(teamIndex + 1, totalTeams)

\* makePick, "Calculate next pick": the team after the pick currentPick.
MakePickNextTeamIndex(s, pick, teamIndex) ==
    LET totalTeams == s.numberOfTeams
        round == MathCeilDiv(pick, totalTeams)
        pickInRound == JsRem(pick - 1, totalTeams) + 1
    IN  IF s.draftType = "snake"
        THEN IF JsRem(round, 2) = 1
             THEN (IF pickInRound = totalTeams THEN totalTeams - 1 ELSE pickInRound)
             ELSE (IF pickInRound = totalTeams THEN 0 ELSE totalTeams - pickInRound)
        ELSE JsRem(teamIndex + 1, totalTeams)

\* markPlayerAsDrafted's computation with the parity test of the round
\* taken on a 1-based round number.
MarkNextTeamIndexOneBasedRound(s, pick, teamIndex) ==
    LET nextPick == pick + 1
        nextRound == MathFloorDiv(nextPick - 1, s.numberOfTeams) + 1
        nextPositionInRound == JsRem(nextPick - 1, s.numberOfTeams)
    IN  IF s = Null THEN teamIndex
        ELSE IF s.draftType = "snake"
             THEN IF JsRem(nextRound, 2) = 0
                  THEN nextPositionInRound
                  ELSE s.numberOfTeams - 1 - nextPositionInRound
             ELSE JsRem(teamIndex + 1, s.numberOfTeams)

\* markPlayerAsDrafted, "Calculate next pick based on draft type".
MarkNextTeamIndex(s, pick, teamIndex) ==
    LET nextPick == pick + 1
        nextRound == MathFloorDiv(nextPick - 1, s.numberOfTeams)
        nextPositionInRound == JsRem(nextPick - 1, s.numberOfTeams)
    IN  IF s = Null THEN teamIndex
        ELSE IF s.draftType = "snake"
             THEN IF JsRem(nextRound, 2) = 0
                  THEN nextPositionInRound
                  ELSE s.numberOfTeams - 1 - nextPositionInRound
             ELSE JsRem(teamIndex + 1, s.numberOfTeams)

(***************************************************************************)
(* generateRecommendations.                                                *)
(***************************************************************************)
RecommendationLimit == 8

\* Lexicographic order of two keys of the same length.
RECURSIVE KeyLess(_, _)
KeyLess(a, b) ==
    /\ a # <<>>
    /\ \/ Head(a) < Head(b)
       \/ Head(a) = Head(b) /\ KeyLess(Tail(a), Tail(b))

\* One step of a stable sort: x goes behind every element whose key is not
\* greater than its own.
RECURSIVE InsertByKey(_, _)
InsertByKey(x, s) ==
    IF s = <<>> THEN <<x>>
    ELSE IF KeyLess(x.key, Head(s).key)
         THEN <<x>> \o s
         ELSE <<Head(s)>> \o InsertByKey(x, Tail(s))

\* array.sort(compare), a stable sort, for a compare function that orders
\* by the key.
RECURSIVE SortByKey(_)
SortByKey(s) ==
    IF s = <<>> THEN <<>>
    ELSE InsertByKey(s[Len(s)], SortByKey(SubSeq(s, 1, Len(s) - 1)))

\* array.filter(x => x.keep)
RECURSIVE KeepMarked(_)
KeepMarked(s) ==
    IF s = <<>> THEN <<>>
    ELSE IF Head(s).keep
         THEN <<Head(s)>> \o KeepMarked(Tail(s))
         ELSE KeepMarked(Tail(s))

\* array.slice(0, n)
Slice(s, n) == SubSeq(s, 1, IF Len(s) < n THEN Len(s) ELSE n)

\* roster.filter(p => p.position === position).length
PositionCount(roster, position) ==
    Cardinality({i \in DOMAIN roster : PlayerPosition(roster[i]) = position})

\* roster.filter(p => ['RB', 'WR', 'TE'].includes(p.position)).length
FlexCount(roster) ==
    Cardinality({i \in DOMAIN roster : PlayerPosition(roster[i]) \in FlexPositions})

\* The fallback path: the top players by value, without the preferences.
\* availablePlayers.filter(p => 'vorp' in p || 'fps' in p)
RECURSIVE WithValue(_)
WithValue(s) ==
    IF s = <<>> THEN <<>>
    ELSE IF HasVorp(Head(s))
         THEN <<Head(s)>> \o WithValue(Tail(s))
         ELSE WithValue(Tail(s))

\* One step of a stable sort by falling value.
RECURSIVE InsertByValue(_, _)
InsertByValue(x, s) ==
    IF s = <<>> THEN <<x>>
    ELSE IF BaseValue(x) > BaseValue(Head(s))
         THEN <<x>> \o s
         ELSE <<Head(s)>> \o InsertByValue(x, Tail(s))

\* .sort((a, b) => bValue - aValue)
RECURSIVE SortByValue(_)
SortByValue(s) ==
    IF s = <<>> THEN <<>>
    ELSE InsertByValue(s[Len(s)], SortByValue(SubSeq(s, 1, Len(s) - 1)))

FallbackCandidates(avail) == Slice(SortByValue(WithValue(avail)), RecommendationLimit)

FallbackRecommendations(s, userTeam, avail) ==
    LET top == FallbackCandidates(avail)
    IN  [i \in DOMAIN top |->
            [player |-> top[i],
             value |-> BaseValue(top[i]),
             reach |-> FALSE,
             positionalNeed |->
                 IF PositionCount(userTeam.roster, PlayerPosition(top[i]))
                        < s.rosterPositions[PlayerPosition(top[i])]
                 THEN "high" ELSE "low"]]

\* The enhanced path, .map(...): what is computed for one available player.
RankedPlayer(s, userTeam, player) ==
    LET customRanking == getCustomRanking(player)
        positionCount == PositionCount(userTeam.roster, PlayerPosition(player))
        maxPositionCount == s.rosterPositions[PlayerPosition(player)]
        maxFlexCount == s.rosterPositions["RB"] + s.rosterPositions["WR"]
                        + s.rosterPositions["TE"] + s.rosterPositions["W-R-T"]
        isPositionFilled == positionCount >= maxPositionCount
        isFlexEligible == PlayerPosition(player) \in FlexPositions
        canFillFlex == isFlexEligible /\ FlexCount(userTeam.roster) < maxFlexCount
        shouldFilter == isPositionFilled /\ (~isFlexEligible \/ ~canFillFlex)
        \* if (p.customRanking): a ranking that is set and is not 0
        ranked == customRanking # <<>> /\ customRanking[1] # 0
        adjustedValue == calculateAdjustedValue(player, BaseValue(player))
    IN  [player |-> player,
         adjustedValue |-> adjustedValue,
         customRanking |-> customRanking,
         positionCount |-> positionCount,
         maxPositionCount |-> maxPositionCount,
         isFlexEligible |-> isFlexEligible,
         \* .filter(...)
         keep |-> IF isPlayerAvoid(player) THEN FALSE
                  ELSE IF isPlayerTarget(player) \/ ranked THEN TRUE
                  ELSE ~shouldFilter,
         \* .sort(...): targets first, then open positions, then adjusted value
         key |-> <<IF isPlayerTarget(player) THEN 0 ELSE 1,
                   IF isPositionFilled THEN 1 ELSE 0,
                   0 - adjustedValue>>]

EnhancedCandidates(s, userTeam, avail) ==
    KeepMarked([i \in DOMAIN avail |-> RankedPlayer(s, userTeam, avail[i])])

EnhancedRecommendations(s, userTeam, avail, pick) ==
    LET top == Slice(SortByKey(EnhancedCandidates(s, userTeam, avail)),
                     RecommendationLimit)
    IN  [i \in DOMAIN top |->
            [player |-> top[i].player,
             value |-> top[i].adjustedValue,
             reach |-> /\ top[i].customRanking # <<>>
                       /\ top[i].customRanking[1] # 0
                       /\ top[i].customRanking[1] > pick,
             positionalNeed |->
                 IF top[i].positionCount < top[i].maxPositionCount THEN "high"
                 ELSE IF top[i].isFlexEligible THEN "medium" ELSE "low"]]

\* A variant that fails on an empty pool and so leaves the list as it was.
generateRecommendationsFailingOnEmpty(s, ts, avail, pick, old) ==
    IF s = Null \/ Len(ts) = 0 \/ avail = <<>> THEN old
    ELSE LET userKnown == s.userTeamIndex + 1 \in DOMAIN ts
             userTeam == ts[s.userTeamIndex + 1]
         IN  IF ~hasPreferencesStore
             THEN IF userKnown THEN FallbackRecommendations(s, userTeam, avail)
                  ELSE IF FallbackCandidates(avail) = <<>> THEN <<>> ELSE old
             ELSE IF userKnown
                  THEN EnhancedRecommendations(s, userTeam, avail, pick)
                  ELSE old

\* generateRecommendations on the session (s, ts, avail, pick): the
\* recommendations the store holds afterwards.  old is kept when the
\* function returns early, and when it throws before its set() because
\* teams[userTeamIndex] is undefined and a player is to be looked at.
generateRecommendations(s, ts, avail, pick, old) ==
    IF s = Null \/ Len(ts) = 0 THEN old
    ELSE LET userKnown == s.userTeamIndex + 1 \in DOMAIN ts
             userTeam == ts[s.userTeamIndex + 1]
         IN  IF ~hasPreferencesStore
             THEN IF userKnown THEN FallbackRecommendations(s, userTeam, avail)
                  ELSE IF FallbackCandidates(avail) = <<>> THEN <<>> ELSE old
             ELSE IF userKnown
                  THEN EnhancedRecommendations(s, userTeam, avail, pick)
                  ELSE IF avail = <<>> THEN <<>> ELSE old

(***************************************************************************)
(* The player database (src/src/lib/playerDatabase.ts): strings.           *)
(*                                                                         *)
(* A string is the sequence of its characters, so that the normalisation   *)
(* of a name and the construction of an id are computed character by       *)
(* character.                                                              *)
(***************************************************************************)
UpperCaseLetters ==
    <<"A", "B", "C", "D", "E", "F", "G", "H", "I", "J", "K", "L", "M",
      "N", "O", "P", "Q", "R", "S", "T", "U", "V", "W", "X", "Y", "Z">>

LowerCaseLetters ==
    <<"a", "b", "c", "d", "e", "f", "g", "h", "i", "j", "k", "l", "m",
      "n", "o", "p", "q", "r", "s", "t", "u", "v", "w", "x", "y", "z">>

Digits == {"0", "1", "2", "3", "4", "5", "6", "7", "8", "9"}

\* The lower case letter of every upper case letter.
LowerCaseOf ==
    [c \in Range(UpperCaseLetters) |->
        LowerCaseLetters[CHOOSE i \in DOMAIN UpperCaseLetters : UpperCaseLetters[i] = c]]

\* One character of string.toLowerCase()
LowerChar(c) == IF c \in DOMAIN LowerCaseOf THEN LowerCaseOf[c] ELSE c

\* string.toLowerCase()
toLowerCase(s) == [i \in DOMAIN s |-> LowerChar(s[i])]

\* The character classes [a-z0-9] and [a-z0-9\s]
LowerAlnum == Range(LowerCaseLetters) \cup Digits
LowerAlnumOrBlank == LowerAlnum \cup {" "}

IsLowerAlnum(c) == c \in LowerAlnum

\* The elements of s that are in the set keep, in order.
RECURSIVE KeepChars(_, _)
KeepChars(s, keep) ==
    IF s = <<>> THEN <<>>
    ELSE IF Head(s) \in keep
         THEN <<Head(s)>> \o KeepChars(Tail(s), keep)
         ELSE KeepChars(Tail(s), keep)

\* .replace(/\s+/g, ' '): every run of blanks becomes one blank.
RECURSIVE CollapseBlanks(_)
CollapseBlanks(s) ==
    IF s = <<>> THEN <<>>
    ELSE IF Head(s) = " " /\ Tail(s) # <<>> /\ Head(Tail(s)) = " "
         THEN CollapseBlanks(Tail(s))
         ELSE <<Head(s)>> \o CollapseBlanks(Tail(s))

\* string.trim()
RECURSIVE TrimLeft(_)
TrimLeft(s) == IF s # <<>> /\ Head(s) = " " THEN TrimLeft(Tail(s)) ELSE s

RECURSIVE TrimRight(_)
TrimRight(s) ==
    IF s # <<>> /\ s[Len(s)] = " " THEN TrimRight(SubSeq(s, 1, Len(s) - 1)) ELSE s

Trim(s) == TrimRight(TrimLeft(s))

\* The name suffixes of /\b(jr|sr|iii|ii|iv)\b/g
NameSuffixes ==
    {<<"j", "r">>, <<"s", "r">>, <<"i", "i", "i">>, <<"i", "i">>, <<"i", "v">>}

\* .replace(/\b(jr|sr|iii|ii|iv)\b/g, '') on a string of [a-z0-9 ]: every
\* word that is a suffix is removed, the blanks around it stay.  word is the
\* word read so far.
RECURSIVE RemoveSuffixWords(_, _)
RemoveSuffixWords(s, word) ==
    LET kept == IF word \in NameSuffixes THEN <<>> ELSE word
    IN  IF s = <<>> THEN kept
        ELSE IF Head(s) = " "
             THEN kept \o <<" ">> \o RemoveSuffixWords(Tail(s), <<>>)
             ELSE RemoveSuffixWords(Tail(s), word \o <<Head(s)>>)

\* PlayerDatabase.normalizePlayerName
normalizePlayerName(name) ==
    LET lower == toLowerCase(name)
        plain == KeepChars(lower, LowerAlnumOrBlank)
        spaced == Trim(CollapseBlanks(plain))
    IN  Trim(RemoveSuffixWords(spaced, <<>>))

\* csvParser.generatePlayerId: `${name...}-${team.toLowerCase()}-${position.toLowerCase()}`
generatePlayerId(name, team, position) ==
    LET lower == toLowerCase(name)
        slug == [i \in DOMAIN lower |-> IF IsLowerAlnum(lower[i]) THEN lower[i] ELSE "-"]
    IN  slug \o <<"-">> \o toLowerCase(team) \o <<"-">> \o toLowerCase(position)

(***************************************************************************)
(* The player database: merging the records of several sources.            *)
(*                                                                         *)
(* An offensive record is [id, name, team, position, vorp, fps,            *)
(* projectedStats], an IDP record is [id, name, team, position, tier,      *)
(* projectedStats]; 'vorp' in player is "vorp" \in DOMAIN player.  A       *)
(* conflict is [playerId, playerName, conflictType]; its sources field is  *)
(* the list of file names of the call and is left out.                     *)
(***************************************************************************)
\* A variant in which the team of the latest record that names one wins.
MergedWithLatestTeam(basePlayer, mergedPlayer, player) ==
    LET withTeam ==
            IF player.team # basePlayer.team /\ player.team # <<>>
            THEN [mergedPlayer EXCEPT !.team = player.team]
            ELSE mergedPlayer
        withStats ==
            IF "vorp" \in DOMAIN player /\ "vorp" \in DOMAIN withTeam
            THEN [withTeam EXCEPT
                     !.vorp = IF player.vorp > @ THEN player.vorp ELSE @,
                     !.projectedStats =
                         [k \in DOMAIN @ |->
                             IF k \in DOMAIN player.projectedStats
                                /\ player.projectedStats[k] # 0 /\ @[k] = 0
                             THEN player.projectedStats[k]
                             ELSE @[k]]]
            ELSE withTeam
    IN  IF "tier" \in DOMAIN player /\ "tier" \in DOMAIN withStats
        THEN [withStats EXCEPT !.tier = IF player.tier < @ THEN player.tier ELSE @]
        ELSE withStats

\* The body of playerGroup.slice(1).forEach in mergePlayerData: the merged
\* player after the record player has been looked at.
MergedWith(basePlayer, mergedPlayer, player) ==
    LET withTeam ==
            IF /\ player.team # basePlayer.team
               /\ player.team # <<>>
               /\ mergedPlayer.team = <<>>
            THEN [mergedPlayer EXCEPT !.team = player.team]
            ELSE mergedPlayer
        withStats ==
            IF "vorp" \in DOMAIN player /\ "vorp" \in DOMAIN withTeam
            THEN [withTeam EXCEPT
                     !.vorp = IF player.vorp > @ THEN player.vorp ELSE @,
                     !.projectedStats =
                         [k \in DOMAIN @ |->
                             IF k \in DOMAIN player.projectedStats
                                /\ player.projectedStats[k] # 0 /\ @[k] = 0
                             THEN player.projectedStats[k]
                             ELSE @[k]]]
            ELSE withTeam
    IN  IF "tier" \in DOMAIN player /\ "tier" \in DOMAIN withStats
        THEN [withStats EXCEPT !.tier = IF player.tier < @ THEN player.tier ELSE @]
        ELSE withStats

\* The conflicts mergePlayerData pushes for the record player.
ConflictsWith(basePlayer, player) ==
    (IF player.team # basePlayer.team
     THEN <<[playerId |-> basePlayer.id, playerName |-> basePlayer.name,
             conflictType |-> "team"]>>
     ELSE <<>>)
    \o
    (IF player.position # basePlayer.position
     THEN <<[playerId |-> basePlayer.id, playerName |-> basePlayer.name,
             conflictType |-> "position"]>>
     ELSE <<>>)

\* mergePlayerData over the records playerGroup[2 .. n]: the merged player
\* and the conflicts pushed.
RECURSIVE MergeGroup(_, _)
MergeGroup(playerGroup, n) ==
    IF n = 1
    THEN [player |-> playerGroup[1], conflicts |-> <<>>]
    ELSE LET before == MergeGroup(playerGroup, n - 1)
         IN  [player |-> MergedWith(playerGroup[1], before.player, playerGroup[n]),
              conflicts |-> before.conflicts
                            \o ConflictsWith(playerGroup[1], playerGroup[n])]

\* PlayerDatabase.mergePlayerData
mergePlayerData(playerGroup) == MergeGroup(playerGroup, Len(playerGroup))

\* A variant without the copy (mergedPlayer = basePlayer): the base record
\* is the merged player.
BaseAliasedToMerged(basePlayer, mergedPlayer) == mergedPlayer

\* mergedPlayer = { ...basePlayer } is a shallow copy: projectedStats of the
\* merged player is the object of the base record, which therefore holds
\* the merged statistics after the call.
BaseAfterMerge(basePlayer, mergedPlayer) ==
    [basePlayer EXCEPT !.projectedStats = mergedPlayer.projectedStats]

\* The keys of nameMap in insertion order: the normalized names, each at
\* its first occurrence.  names[i] is the normalized name of record i.
RECURSIVE NameKeys(_)
NameKeys(names) ==
    IF names = <<>> THEN <<>>
    ELSE LET keys == NameKeys(SubSeq(names, 1, Len(names) - 1))
             key == names[Len(names)]
         IN  IF key \in Range(keys) THEN keys ELSE Append(keys, key)

\* nameMap.get(key): the positions of the records of the group, in order.
RECURSIVE GroupPositions(_, _, _)
GroupPositions(names, key, from) ==
    IF from > Len(names) THEN <<>>
    ELSE IF names[from] = key
         THEN <<from>> \o GroupPositions(names, key, from + 1)
         ELSE GroupPositions(names, key, from + 1)

\* this.players.set(id, player)
MapSet(map, id, player) ==
    [k \in DOMAIN map \cup {id} |-> IF k = id THEN player ELSE map[k]]

EmptyMap == [k \in {} |-> Null]

\* nameMap.forEach over the first n groups: the pool, the result fields and
\* the records of newPlayers as the call leaves them.
RECURSIVE MergeGroups(_, _, _, _, _)
MergeGroups(pool, newPlayers, names, keys, n) ==
    IF n = 0
    THEN [players |-> pool, mergedPlayers |-> <<>>, duplicatesFound |-> 0,
          conflicts |-> <<>>, newPlayers |-> newPlayers]
    ELSE LET before == MergeGroups(pool, newPlayers, names, keys, n - 1)
             positions == GroupPositions(names, keys[n], 1)
             playerGroup == [i \in DOMAIN positions |-> before.newPlayers[positions[i]]]
             merged == mergePlayerData(playerGroup)
         IN  [players |-> MapSet(before.players, merged.player.id, merged.player),
              mergedPlayers |-> Append(before.mergedPlayers, merged.player),
              duplicatesFound |-> before.duplicatesFound + Len(playerGroup) - 1,
              conflicts |-> before.conflicts \o merged.conflicts,
              newPlayers |->
                  [before.newPlayers EXCEPT
                      ![positions[1]] = BaseAfterMerge(@, merged.player)]]

\* PlayerDatabase.mergePlayersFromSources on the pool given.
mergePlayersFromSources(pool, newPlayers) ==
    LET names == [i \in DOMAIN newPlayers |-> normalizePlayerName(newPlayers[i].name)]
        keys == NameKeys(names)
    IN  MergeGroups(pool, newPlayers, names, keys, Len(keys))

\* A new PlayerDatabase with nothing saved: no player, no merge yet.
EmptyResult == [mergedPlayers |-> <<>>, duplicatesFound |-> 0, conflicts |-> <<>>]

InitDatabase ==
    /\ database = EmptyMap
    /\ mergeResult = EmptyResult
    /\ imported = <<>>
    /\ load = [name |-> "create", records |-> 0, newPlayers |-> <<>>,
               players |-> EmptyMap, result |-> EmptyResult]

\* loadFromCSVFiles once the files are parsed into newPlayers:
\* mergePlayersFromSources(parseResult.allPlayers, ...).  name tells the
\* history whether the list is a new one or the last one again.
loadFromCSVFiles(name, newPlayers) ==
    LET merged == mergePlayersFromSources(database, newPlayers)
    IN  /\ database' = merged.players
        /\ mergeResult' = [mergedPlayers |-> merged.mergedPlayers,
                           duplicatesFound |-> merged.duplicatesFound,
                           conflicts |-> merged.conflicts]
        /\ imported' = merged.newPlayers
        /\ load' = [name |-> name,
                    records |-> load.records
                                + (IF name = "load" THEN Len(newPlayers) ELSE 0),
                    newPlayers |-> newPlayers,
                    players |-> database,
                    result |-> mergeResult]
        /\ UNCHANGED <<storeVars, recommendations, initialPlayers, op, pre>>
        /\ UNCHANGED prefVars
        /\ UNCHANGED draftSettings
        /\ UNCHANGED interval

(***************************************************************************)
(* The settings store (src/src/stores/settingsStore.ts): draftSettings.    *)
(***************************************************************************)
defaultDraftSettings ==
    [numberOfTeams |-> 14,
     userTeamIndex |-> 0,
     draftType |-> "snake",
     pickTimeLimit |-> 120,
     rosterPositions |->
         [slot \in RosterSlotNames |->
             CASE slot = "WR" -> 2
               [] slot = "W-R-T" -> 2
               [] slot = "BN" -> 6
               [] OTHER -> 1]]

\* updateDraftSettings(settings): the draftSettings it sets.  updates, the
\* argument, holds some of the fields of DraftSettings, and its
\* rosterPositions some of the slots.
UpdatedDraftSettings(stored, updates) ==
    LET current == IF stored = Null THEN defaultDraftSettings ELSE stored
        spread == Merge(current, updates)
    IN  [spread EXCEPT
            !.rosterPositions =
                IF "rosterPositions" \in DOMAIN updates
                THEN Merge(current.rosterPositions, updates.rosterPositions)
                ELSE current.rosterPositions]

(***************************************************************************)
(* The session state and the history variables.                            *)
(***************************************************************************)
Session ==
    [settings |-> settings, teams |-> teams, availablePlayers |-> availablePlayers,
     picks |-> picks, currentPick |-> currentPick,
     currentTeamIndex |-> currentTeamIndex, timeRemaining |-> timeRemaining,
     isActive |-> isActive]

\* op: the operation, the player and team index it was called with (0 when
\* it takes none) and the settings, teams and player list it was called with
\* (null and empty when it takes none); for an operation of the preferences
\* store, the note of its player before it (<<>> when there was none).  The
\* operations of the draft store leave the preferences store alone.
RecordInitialize(s, ts, players) ==
    /\ op' = [name |-> "initializeDraft", player |-> 0, teamIndex |-> 0,
              players |-> players, settings |-> s, teams |-> ts,
              note |-> <<>>]
    /\ pre' = Session
    /\ UNCHANGED prefVars
    /\ UNCHANGED dbVars

RecordCall(name, player, teamIndex, players) ==
    /\ op' = [name |-> name, player |-> player, teamIndex |-> teamIndex,
              players |-> players, settings |-> Null, teams |-> <<>>,
              note |-> <<>>]
    /\ pre' = Session
    /\ UNCHANGED prefVars
    /\ UNCHANGED dbVars
    /\ UNCHANGED draftSettings

Record(name, player, teamIndex) == RecordCall(name, player, teamIndex, <<>>)

(***************************************************************************)
(* The timer effect of the draft room.                                     *)
(*                                                                         *)
(* useEffect(() => { if (!isActive || timeRemaining <= 0) return;          *)
(*   const timer = setInterval(() => updateTimer(timeRemaining - 1), 1000) *)
(*   return () => clearInterval(timer) }, [isActive, timeRemaining, ...])  *)
(*                                                                         *)
(* The interval closes over the timeRemaining of the render that set it    *)
(* up.  React runs the effect again, clearing the interval first, when     *)
(* isActive or timeRemaining differ from the render before; a store        *)
(* update is rendered and its effects are run in the task of the update,   *)
(* before any other timer or click is handled.                             *)
(***************************************************************************)
\* The effect without the isActive test of its first line.
TimerEffectThroughPause(current, wasActive, was, active, remaining) ==
    IF <<wasActive, was>> = <<active, remaining>> THEN current
    ELSE IF remaining <= 0 THEN Null
    ELSE [timeRemaining |-> remaining]

\* The effect without the timeRemaining <= 0 test of its first line.
TimerEffectBelowZero(current, wasActive, was, active, remaining) ==
    IF <<wasActive, was>> = <<active, remaining>> THEN current
    ELSE IF ~active THEN Null
    ELSE [timeRemaining |-> remaining]

\* The effect with isActive as its only dependency.
TimerEffectOnActiveOnly(current, wasActive, was, active, remaining) ==
    IF wasActive = active THEN current
    ELSE IF ~active \/ remaining <= 0 THEN Null
    ELSE [timeRemaining |-> remaining]

TimerEffect(current, wasActive, was, active, remaining) ==
    IF <<wasActive, was>> = <<active, remaining>> THEN current
    ELSE IF ~active \/ remaining <= 0 THEN Null
    ELSE [timeRemaining |-> remaining]

DraftRoomTimerEffect ==
    interval' = TimerEffect(interval, isActive, timeRemaining,
                            isActive', timeRemaining')

(***************************************************************************)
(* The store: initial state and operations.                                *)
(*                                                                         *)
(* initializeDraft, makePick, undoLastPick and markPlayerAsDrafted end by  *)
(* calling generateRecommendations on the state they have just set; it     *)
(* writes only the recommendations list.                                   *)
(***************************************************************************)
Init ==
    /\ settings = Null
    /\ teams = <<>>
    /\ availablePlayers = <<>>
    /\ picks = <<>>
    /\ currentPick = 1
    /\ currentTeamIndex = 0
    /\ timeRemaining = DefaultTimeRemaining
    /\ isActive = FALSE
    /\ recommendations = <<>>
    /\ playerNotes = <<>>
    /\ favoriteTeams = {}
    /\ avoidTeams = {}
    /\ hasPreferencesStore = FALSE
    /\ adjusted = [player |-> 0, baseValue |-> 0, value |-> 0]
    /\ InitDatabase
    /\ draftSettings = defaultDraftSettings
    /\ interval = Null
    /\ initialPlayers = <<>>
    /\ op = [name |-> "create", player |-> 0, teamIndex |-> 0, players |-> <<>>,
             settings |-> Null, teams |-> <<>>, note |-> <<>>]
    /\ pre = Session

\* initializeDraft without the isActive: false of its set() call.
initializeDraftKeepingActive(s, ts, players) ==
    /\ settings' = s
    /\ teams' = ts
    /\ availablePlayers' = players
    /\ picks' = <<>>
    /\ currentPick' = 1
    /\ currentTeamIndex' = 0
    /\ timeRemaining' = s.pickTimeLimit
    /\ isActive' = isActive
    /\ initialPlayers' = players
    /\ recommendations' = generateRecommendations(s, ts, players, 1, recommendations)
    /\ RecordInitialize(s, ts, players)
    /\ DraftRoomTimerEffect

initializeDraft(s, ts, players) ==
    /\ settings' = s
    /\ teams' = ts
    /\ availablePlayers' = players
    /\ picks' = <<>>
    /\ currentPick' = 1
    /\ currentTeamIndex' = 0
    /\ timeRemaining' = s.pickTimeLimit
    /\ isActive' = FALSE
    /\ initialPlayers' = players
    /\ recommendations' = generateRecommendations(s, ts, players, 1, recommendations)
    /\ RecordInitialize(s, ts, players)
    /\ DraftRoomTimerEffect

startDraft ==
    /\ isActive' = TRUE
    /\ UNCHANGED <<settings, teams, availablePlayers, picks, currentPick,
                   currentTeamIndex, timeRemaining, initialPlayers,
                   recommendations>>
    /\ Record("startDraft", 0, 0)
    /\ DraftRoomTimerEffect

\* pauseDraft putting the clock back to the default as well.
pauseDraftResettingTimer ==
    /\ isActive' = FALSE
    /\ timeRemaining' = DefaultTimeRemaining
    /\ UNCHANGED <<settings, teams, availablePlayers, picks, currentPick,
                   currentTeamIndex, initialPlayers, recommendations>>
    /\ Record("pauseDraft", 0, 0)
    /\ DraftRoomTimerEffect

pauseDraft ==
    /\ isActive' = FALSE
    /\ UNCHANGED <<settings, teams, availablePlayers, picks, currentPick,
                   currentTeamIndex, timeRemaining, initialPlayers,
                   recommendations>>
    /\ Record("pauseDraft", 0, 0)
    /\ DraftRoomTimerEffect

makePick(player) ==
    /\ Record("makePick", player, currentTeamIndex)
    /\ UNCHANGED <<settings, isActive, initialPlayers>>
    /\ IF settings = Null
       THEN UNCHANGED <<teams, availablePlayers, picks, currentPick,
                        currentTeamIndex, timeRemaining, recommendations>>
       ELSE /\ picks' = Append(picks, [pickNumber |-> currentPick,
                                        teamIndex |-> currentTeamIndex,
                                        player |-> player])
            /\ teams' = AddToRoster(teams, currentTeamIndex, player)
            /\ availablePlayers' = FilterOut(availablePlayers, player)
            /\ currentPick' = currentPick + 1
            /\ currentTeamIndex' =
                   MakePickNextTeamIndex(settings, currentPick, currentTeamIndex)
            /\ timeRemaining' = settings.pickTimeLimit
            /\ recommendations' =
                   generateRecommendations(settings, teams', availablePlayers',
                                           currentPick', recommendations)
    /\ DraftRoomTimerEffect

\* undoLastPick leaving currentPick where it was.
undoLastPickKeepingCounter ==
    /\ Record("undoLastPick", 0, 0)
    /\ UNCHANGED <<settings, isActive, timeRemaining, initialPlayers>>
    /\ IF Len(picks) = 0
       THEN UNCHANGED <<teams, availablePlayers, picks, currentPick,
                        currentTeamIndex, recommendations>>
       ELSE LET lastPick == picks[Len(picks)]
            IN  /\ picks' = SubSeq(picks, 1, Len(picks) - 1)
                /\ teams' = RemoveFromRoster(teams, lastPick.teamIndex, lastPick.player)
                /\ availablePlayers' =
                       SortByName(Append(availablePlayers, lastPick.player))
                /\ currentPick' = currentPick
                /\ currentTeamIndex' = lastPick.teamIndex
                /\ recommendations' =
                       generateRecommendations(settings, teams', availablePlayers',
                                               currentPick', recommendations)
    /\ DraftRoomTimerEffect

\* undoLastPick with the empty-log case putting the turn back to the first
\* pick instead of returning.
undoLastPickRewinding ==
    /\ Record("undoLastPick", 0, 0)
    /\ UNCHANGED <<settings, isActive, timeRemaining, initialPlayers>>
    /\ IF Len(picks) = 0
       THEN /\ currentPick' = 1
            /\ currentTeamIndex' = 0
            /\ UNCHANGED <<teams, availablePlayers, picks, recommendations>>
       ELSE LET lastPick == picks[Len(picks)]
            IN  /\ picks' = SubSeq(picks, 1, Len(picks) - 1)
                /\ teams' = RemoveFromRoster(teams, lastPick.teamIndex, lastPick.player)
                /\ availablePlayers' =
                       SortByName(Append(availablePlayers, lastPick.player))
                /\ currentPick' = lastPick.pickNumber
                /\ currentTeamIndex' = lastPick.teamIndex
                /\ recommendations' =
                       generateRecommendations(settings, teams', availablePlayers',
                                               currentPick', recommendations)
    /\ DraftRoomTimerEffect

undoLastPick ==
    /\ Record("undoLastPick", 0, 0)
    /\ UNCHANGED <<settings, isActive, timeRemaining, initialPlayers>>
    /\ IF Len(picks) = 0
       THEN UNCHANGED <<teams, availablePlayers, picks, currentPick,
                        currentTeamIndex, recommendations>>
       ELSE LET lastPick == picks[Len(picks)]
            IN  /\ picks' = SubSeq(picks, 1, Len(picks) - 1)
                /\ teams' = RemoveFromRoster(teams, lastPick.teamIndex, lastPick.player)
                /\ availablePlayers' =
                       SortByName(Append(availablePlayers, lastPick.player))
                /\ currentPick' = lastPick.pickNumber
                /\ currentTeamIndex' = lastPick.teamIndex
                /\ recommendations' =
                       generateRecommendations(settings, teams', availablePlayers',
                                               currentPick', recommendations)
    /\ DraftRoomTimerEffect

\* updateTimer passing the turn on when the clock runs out.
updateTimerSkippingTurn(t) ==
    /\ timeRemaining' = t
    /\ currentPick' = IF t = 0 THEN currentPick + 1 ELSE currentPick
    /\ UNCHANGED <<settings, teams, availablePlayers, picks,
                   currentTeamIndex, isActive, initialPlayers, recommendations>>
    /\ Record("updateTimer", 0, 0)
    /\ DraftRoomTimerEffect

updateTimer(t) ==
    /\ timeRemaining' = t
    /\ UNCHANGED <<settings, teams, availablePlayers, picks, currentPick,
                   currentTeamIndex, isActive, initialPlayers, recommendations>>
    /\ Record("updateTimer", 0, 0)
    /\ DraftRoomTimerEffect

\* markPlayerAsDrafted putting the clock to the default of 120 seconds
\* whatever the settings say.
markPlayerAsDraftedDefaultClock(player, teamIndex) ==
    /\ Record("markPlayerAsDrafted", player, teamIndex)
    /\ UNCHANGED <<settings, isActive, initialPlayers>>
    /\ availablePlayers' = FilterOut(availablePlayers, player)
    /\ teams' = IF teamIndex >= 0 /\ teamIndex < Len(teams)
                THEN AddToRoster(teams, teamIndex, player)
                ELSE teams
    /\ picks' = Append(picks, [pickNumber |-> currentPick,
                                teamIndex |-> teamIndex,
                                player |-> player])
    /\ currentPick' = currentPick + 1
    /\ currentTeamIndex' = MarkNextTeamIndex(settings, currentPick, teamIndex)
    /\ timeRemaining' = DefaultTimeRemaining
    /\ recommendations' =
           generateRecommendations(settings, teams', availablePlayers',
                                   currentPick', recommendations)
    /\ DraftRoomTimerEffect

markPlayerAsDrafted(player, teamIndex) ==
    /\ Record("markPlayerAsDrafted", player, teamIndex)
    /\ UNCHANGED <<settings, isActive, initialPlayers>>
    /\ availablePlayers' = FilterOut(availablePlayers, player)
    /\ teams' = IF teamIndex >= 0 /\ teamIndex < Len(teams)
                THEN AddToRoster(teams, teamIndex, player)
                ELSE teams
    /\ picks' = Append(picks, [pickNumber |-> currentPick,
                                teamIndex |-> teamIndex,
                                player |-> player])
    /\ currentPick' = currentPick + 1
    /\ currentTeamIndex' = MarkNextTeamIndex(settings, currentPick, teamIndex)
    /\ timeRemaining' =
           IF settings # Null /\ settings.pickTimeLimit # 0
           THEN settings.pickTimeLimit
           ELSE DefaultTimeRemaining
    /\ recommendations' =
           generateRecommendations(settings, teams', availablePlayers',
                                   currentPick', recommendations)
    /\ DraftRoomTimerEffect

\* generateRecommendations called on its own, as the draft room does when
\* the user is on the clock.
regenerate ==
    /\ recommendations' =
           generateRecommendations(settings, teams, availablePlayers, currentPick,
                                   recommendations)
    /\ UNCHANGED <<storeVars, initialPlayers>>
    /\ Record("generateRecommendations", 0, 0)
    /\ DraftRoomTimerEffect

\* A variant that writes the session's settings as well.
updateDraftSettingsOfSession(updates) ==
    /\ draftSettings' = UpdatedDraftSettings(draftSettings, updates)
    /\ settings' = IF settings = Null THEN Null
                   ELSE UpdatedDraftSettings(settings, updates)
    /\ op' = [name |-> "updateDraftSettings", player |-> 0, teamIndex |-> 0,
              players |-> <<>>, settings |-> Null, teams |-> <<>>,
              note |-> <<>>]
    /\ pre' = Session
    /\ UNCHANGED <<teams, availablePlayers, picks, currentPick, currentTeamIndex,
                   timeRemaining, isActive, recommendations, initialPlayers>>
    /\ UNCHANGED prefVars
    /\ UNCHANGED dbVars
    /\ DraftRoomTimerEffect

\* settingsStore.updateDraftSettings
updateDraftSettings(updates) ==
    /\ draftSettings' = UpdatedDraftSettings(draftSettings, updates)
    /\ op' = [name |-> "updateDraftSettings", player |-> 0, teamIndex |-> 0,
              players |-> <<>>, settings |-> Null, teams |-> <<>>,
              note |-> <<>>]
    /\ pre' = Session
    /\ UNCHANGED <<storeVars, recommendations, initialPlayers>>
    /\ UNCHANGED prefVars
    /\ UNCHANGED dbVars
    /\ DraftRoomTimerEffect

resetDraft ==
    /\ settings' = Null
    /\ teams' = <<>>
    /\ availablePlayers' = <<>>
    /\ picks' = <<>>
    /\ currentPick' = 1
    /\ currentTeamIndex' = 0
    /\ timeRemaining' = DefaultTimeRemaining
    /\ isActive' = FALSE
    /\ recommendations' = <<>>
    /\ initialPlayers' = <<>>
    /\ Record("resetDraft", 0, 0)
    /\ DraftRoomTimerEffect

(***************************************************************************)
(* The preferences store: operations.                                      *)
(***************************************************************************)
\* The operations of the preferences store leave the draft store alone.
RecordPreference(name, player) ==
    /\ op' = [name |-> name, player |-> player, teamIndex |-> 0,
              players |-> <<>>, settings |-> Null, teams |-> <<>>,
              note |-> IF HasNote(playerNotes, player)
                       THEN <<FindNote(playerNotes, player)>>
                       ELSE <<>>]
    /\ pre' = Session
    /\ UNCHANGED <<storeVars, recommendations, initialPlayers>>
    /\ UNCHANGED <<favoriteTeams, avoidTeams, hasPreferencesStore, adjusted>>
    /\ UNCHANGED dbVars
    /\ UNCHANGED draftSettings
    /\ UNCHANGED interval

addPlayerNote(playerId) ==
    /\ playerNotes' = AddedPlayerNote(playerNotes, playerId)
    /\ RecordPreference("addPlayerNote", playerId)

removePlayerNote(playerId) ==
    /\ playerNotes' = RemovedPlayerNote(playerNotes, playerId)
    /\ RecordPreference("removePlayerNote", playerId)

\* setPlayerTarget keeping the avoid flag of an existing note.
setPlayerTargetKeepingAvoid(playerId, isTarget) ==
    /\ playerNotes' =
           IF HasNote(playerNotes, playerId)
           THEN UpdatedPlayerNote(playerNotes, playerId, [isTarget |-> isTarget])
           ELSE UpdatedPlayerNote(AddedPlayerNote(playerNotes, playerId),
                                  playerId, [isTarget |-> isTarget])
    /\ RecordPreference("setPlayerTarget", playerId)

setPlayerTarget(playerId, isTarget) ==
    /\ playerNotes' =
           IF HasNote(playerNotes, playerId)
           THEN UpdatedPlayerNote(playerNotes, playerId,
                    [isTarget |-> isTarget,
                     isAvoid |-> IF isTarget THEN FALSE
                                 ELSE FindNote(playerNotes, playerId).isAvoid])
           ELSE UpdatedPlayerNote(AddedPlayerNote(playerNotes, playerId),
                                  playerId, [isTarget |-> isTarget])
    /\ RecordPreference("setPlayerTarget", playerId)

setPlayerAvoid(playerId, isAvoid) ==
    /\ playerNotes' =
           IF HasNote(playerNotes, playerId)
           THEN UpdatedPlayerNote(playerNotes, playerId,
                    [isAvoid |-> isAvoid,
                     isTarget |-> IF isAvoid THEN FALSE
                                  ELSE FindNote(playerNotes, playerId).isTarget])
           ELSE UpdatedPlayerNote(AddedPlayerNote(playerNotes, playerId),
                                  playerId, [isAvoid |-> isAvoid])
    /\ RecordPreference("setPlayerAvoid", playerId)

setCustomRanking(playerId, ranking) ==
    /\ playerNotes' =
           IF HasNote(playerNotes, playerId)
           THEN UpdatedPlayerNote(playerNotes, playerId,
                                  [customRanking |-> <<ranking>>])
           ELSE UpdatedPlayerNote(AddedPlayerNote(playerNotes, playerId),
                                  playerId, [customRanking |-> <<ranking>>])
    /\ RecordPreference("setCustomRanking", playerId)

clearCustomRanking(playerId) ==
    /\ playerNotes' = UpdatedPlayerNote(playerNotes, playerId,
                                        [customRanking |-> <<>>])
    /\ RecordPreference("clearCustomRanking", playerId)

(***************************************************************************)
(* Inputs.                                                                 *)
(***************************************************************************)
\* The players the user takes notes about.
NotePlayers == 1 .. MaxNotePlayers

\* A custom ranking of 0, which is a number but not a truthy one, and 1.
RankInputs == {0, 1}

SettingsInputs ==
    [numberOfTeams : 1 .. MaxTeams,
     userTeamIndex : 0 .. MaxTeams - 1,
     draftType : DraftTypes,
     pickTimeLimit : 1 .. MaxTimeLimit,
     rosterPositions : {DefaultRosterPositions}]

\* The settings of a setup in which the user's position is one of the teams.
SetupSettings == {s \in SettingsInputs : s.userTeamIndex < s.numberOfTeams}

\* The index of every team of the session, and one index below them.
TeamIndexInputs == (0 - 1) .. (Len(teams) - 1)

TimerInputs == {0}

(***************************************************************************)
(* Spec: the store under arbitrary calls of its operations.                *)
(***************************************************************************)
InitializeDraft ==
    /\ \E s \in SetupSettings :
           initializeDraft(s, MakeTeams(s.numberOfTeams, s.userTeamIndex), AllPlayers)
    /\ UNCHANGED draftSettings

StartDraft == startDraft

PauseDraft == pauseDraft

MakePick ==
    /\ Len(picks) < MaxPicks
    /\ \E p \in Players : makePick(p)

MarkPlayerAsDrafted ==
    /\ Len(picks) < MaxPicks
    /\ \E p \in Players : \E t \in TeamIndexInputs : markPlayerAsDrafted(p, t)

UndoLastPick == undoLastPick

UpdateTimer == \E t \in TimerInputs : updateTimer(t)

ResetDraft == resetDraft

Next ==
    \/ InitializeDraft
    \/ StartDraft
    \/ PauseDraft
    \/ MakePick
    \/ MarkPlayerAsDrafted
    \/ UndoLastPick
    \/ UpdateTimer
    \/ ResetDraft

Spec == Init /\ [][Next]_vars

(***************************************************************************)
(* SpecRoom: the store as the setup screens and the draft room drive it.   *)
(***************************************************************************)
\* DraftRoom: const isUserTurn = teams[currentTeamIndex]?.isUser
isUserTurn ==
    /\ currentTeamIndex + 1 \in DOMAIN teams
    /\ teams[currentTeamIndex + 1].isUser

\* handlePlayerPick recording every pick of another team for team 0.
handlePlayerPickForFirstTeam(player) ==
    /\ isActive
    /\ IF isUserTurn
       THEN makePick(player)
       ELSE markPlayerAsDrafted(player, 0)

\* DraftRoom.handlePlayerPick
handlePlayerPick(player) ==
    /\ isActive
    /\ IF isUserTurn
       THEN makePick(player)
       ELSE markPlayerAsDrafted(player, currentTeamIndex)

\* DraftSetup.handleStartDraft and QuickDraftSetup.handleQuickStart:
\* updateDraftSettings(s), then initializeDraft(s, teams, allPlayers)
handleStartDraft(s, players) ==
    /\ Len(players) # 0
    /\ draftSettings' = UpdatedDraftSettings(draftSettings, s)
    /\ initializeDraft(s, MakeTeams(s.numberOfTeams, s.userTeamIndex), players)

\* The player rows of the room list the available players.
RoomSetup == \E s \in SetupSettings : handleStartDraft(s, AllPlayers)

RoomPick == \E p \in Range(availablePlayers) : handlePlayerPick(p)

\* The Undo Pick button: disabled={currentPick === 1}
RoomUndo ==
    /\ currentPick # 1
    /\ undoLastPick

\* The Pause/Resume button: onClick={isActive ? pauseDraft : startDraft}
RoomToggle == IF isActive THEN pauseDraft ELSE startDraft

\* The timer effect: once a second while the draft is active and time is left.
RoomTick ==
    /\ interval # Null
    /\ updateTimer(interval.timeRemaining - 1)

NextRoom ==
    \/ RoomSetup
    \/ RoomPick
    \/ RoomUndo
    \/ RoomToggle
    \/ RoomTick

SpecRoom == Init /\ [][NextRoom]_vars

(***************************************************************************)
(* Spec12: the 12-team snake scenario, driven through the draft room.      *)
(***************************************************************************)
ScenarioSettings(userTeamIndex) ==
    [numberOfTeams |-> 12, userTeamIndex |-> userTeamIndex,
     draftType |-> "snake", pickTimeLimit |-> MaxTimeLimit,
     rosterPositions |-> DefaultRosterPositions]

\* Thirteen players, listed by name.
ScenarioPlayers == SortByName(SeqOfRange(1, 13))

ScenarioSetup ==
    /\ settings = Null
    /\ \E u \in 0 .. 11 : handleStartDraft(ScenarioSettings(u), ScenarioPlayers)

\* The operator records the first player listed.
ScenarioPick ==
    /\ availablePlayers # <<>>
    /\ handlePlayerPick(Head(availablePlayers))

ScenarioUndo == RoomUndo

ScenarioToggle == RoomToggle

Next12 ==
    \/ ScenarioSetup
    \/ ScenarioPick
    \/ ScenarioUndo
    \/ ScenarioToggle

Spec12 == Init /\ [][Next12]_vars

(***************************************************************************)
(* SpecNotes: the preferences store under arbitrary calls of the           *)
(* operations that write single notes.                                     *)
(***************************************************************************)
AddPlayerNote == \E p \in NotePlayers : addPlayerNote(p)

RemovePlayerNote == \E p \in NotePlayers : removePlayerNote(p)

SetPlayerTarget ==
    \E p \in NotePlayers : \E isTarget \in BOOLEAN : setPlayerTarget(p, isTarget)

SetPlayerAvoid ==
    \E p \in NotePlayers : \E isAvoid \in BOOLEAN : setPlayerAvoid(p, isAvoid)

SetCustomRanking ==
    \E p \in NotePlayers : \E ranking \in RankInputs : setCustomRanking(p, ranking)

ClearCustomRanking == \E p \in NotePlayers : clearCustomRanking(p)

NextNotes ==
    \/ AddPlayerNote
    \/ RemovePlayerNote
    \/ SetPlayerTarget
    \/ SetPlayerAvoid
    \/ SetCustomRanking
    \/ ClearCustomRanking

SpecNotes == Init /\ [][NextNotes]_vars

(***************************************************************************)
(* SpecPrefs: one draft, recorded for the team on the clock, while the     *)
(* user edits notes.  window.userPreferencesStore is assigned nowhere in   *)
(* the sources, so whether generateRecommendations finds it depends on the *)
(* page: both cases are initial states.                                    *)
(***************************************************************************)
InitPrefs ==
    /\ settings = Null
    /\ teams = <<>>
    /\ availablePlayers = <<>>
    /\ picks = <<>>
    /\ currentPick = 1
    /\ currentTeamIndex = 0
    /\ timeRemaining = DefaultTimeRemaining
    /\ isActive = FALSE
    /\ recommendations = <<>>
    /\ playerNotes = <<>>
    /\ favoriteTeams = {}
    /\ avoidTeams = {}
    /\ hasPreferencesStore \in BOOLEAN
    /\ adjusted = [player |-> 0, baseValue |-> 0, value |-> 0]
    /\ InitDatabase
    /\ draftSettings = defaultDraftSettings
    /\ interval = Null
    /\ initialPlayers = <<>>
    /\ op = [name |-> "create", player |-> 0, teamIndex |-> 0, players |-> <<>>,
             settings |-> Null, teams |-> <<>>, note |-> <<>>]
    /\ pre = Session

\* One quarterback and one running back slot; or no quarterback slot, one
\* running back slot and one flex slot.
PrefsRosterInputs == {RosterPositions(1, 1, 0), RosterPositions(0, 1, 1)}

\* The user drafts first.
PrefsSettings ==
    [numberOfTeams : 1 .. MaxTeams,
     userTeamIndex : {0},
     draftType : {"snake"},
     pickTimeLimit : {MaxTimeLimit},
     rosterPositions : PrefsRosterInputs]

PrefsSetup ==
    /\ settings = Null
    /\ \E s \in PrefsSettings : handleStartDraft(s, AllPlayers)

\* What handlePlayerPick calls for an available player.
PrefsPick ==
    \E p \in Range(availablePlayers) :
        IF isUserTurn THEN makePick(p) ELSE markPlayerAsDrafted(p, currentTeamIndex)

PrefsUndo == RoomUndo

\* The effect of the draft room that regenerates the recommendations.
PrefsRegenerate ==
    /\ settings # Null
    /\ isUserTurn
    /\ regenerate

\* The notes modal, for a player that has a note or while there is room for
\* another note.
PrefsNote ==
    \E p \in NotePlayers :
        /\ HasNote(playerNotes, p) \/ Len(playerNotes) < MaxNotes
        /\ \/ \E isTarget \in BOOLEAN : setPlayerTarget(p, isTarget)
           \/ \E isAvoid \in BOOLEAN : setPlayerAvoid(p, isAvoid)
           \/ \E ranking \in RankInputs : setCustomRanking(p, ranking)
           \/ clearCustomRanking(p)
           \/ removePlayerNote(p)

NextPrefs ==
    \/ PrefsSetup
    \/ PrefsPick
    \/ PrefsUndo
    \/ PrefsRegenerate
    \/ PrefsNote

SpecPrefs == InitPrefs /\ [][NextPrefs]_vars

(***************************************************************************)
(* SpecValue: calculateAdjustedValue as a function of its arguments and of *)
(* the preferences it reads.  The preferences store is persisted; the      *)
(* session starts from what was stored: no note or one note about player   *)
(* 1, and the team lists.                                                  *)
(***************************************************************************)
\* Custom rankings: the falsy 0, the first rank and rank 5.
ValueRankInputs == {<<>>, <<0>>, <<1>>, <<5>>}

\* The notes the single-note operations can leave about one player.
ValueNoteInputs ==
    {n \in [playerId : {1}, isTarget : BOOLEAN, isAvoid : BOOLEAN,
            customRanking : ValueRankInputs] : ~(n.isTarget /\ n.isAvoid)}

\* Player 1 plays for PIT, player 2 for BAL.
TeamListInputs == {{}, {"PIT"}, {"BAL"}}

\* Base values in thousandths: negative, zero, below half a cent, and two
\* ordinary ones.
BaseInputs == {0 - 1500, 0, 4, 8000, 12340}

InitValue ==
    /\ settings = Null
    /\ teams = <<>>
    /\ availablePlayers = <<>>
    /\ picks = <<>>
    /\ currentPick = 1
    /\ currentTeamIndex = 0
    /\ timeRemaining = DefaultTimeRemaining
    /\ isActive = FALSE
    /\ recommendations = <<>>
    /\ playerNotes \in {<<>>} \cup {<<n>> : n \in ValueNoteInputs}
    /\ favoriteTeams \in TeamListInputs
    /\ avoidTeams \in TeamListInputs
    /\ hasPreferencesStore = FALSE
    /\ adjusted = [player |-> 0, baseValue |-> 0, value |-> 0]
    /\ InitDatabase
    /\ draftSettings = defaultDraftSettings
    /\ interval = Null
    /\ initialPlayers = <<>>
    /\ op = [name |-> "create", player |-> 0, teamIndex |-> 0, players |-> <<>>,
             settings |-> Null, teams |-> <<>>, note |-> <<>>]
    /\ pre = Session

\* A call of calculateAdjustedValue: adjusted keeps its arguments and result.
CalculateAdjustedValue ==
    \E p \in NotePlayers : \E baseValue \in BaseInputs :
        /\ adjusted' = [player |-> p, baseValue |-> baseValue,
                        value |-> calculateAdjustedValue(p, baseValue)]
        /\ op' = [name |-> "calculateAdjustedValue", player |-> p, teamIndex |-> 0,
                  players |-> <<>>, settings |-> Null, teams |-> <<>>,
                  note |-> <<>>]
        /\ pre' = Session
        /\ UNCHANGED <<storeVars, recommendations, initialPlayers, playerNotes,
                       favoriteTeams, avoidTeams, hasPreferencesStore>>
        /\ UNCHANGED dbVars
        /\ UNCHANGED draftSettings
        /\ UNCHANGED interval

NextValue == CalculateAdjustedValue

SpecValue == InitValue /\ [][NextValue]_vars

(***************************************************************************)
(* SpecConfig: initializeDraft called with short and with faulty           *)
(* configurations, and the draft room from there on.  The roster counts of *)
(* the setup screen range from 0 (DraftRoom.tsx, min="0").                 *)
(***************************************************************************)
\* No roster slot at all, and a single slot.
ConfigRosterInputs == {RosterPositions(0, 0, 0), RosterPositions(1, 0, 0)}

ConfigSettings ==
    [numberOfTeams : 1 .. MaxTeams,
     userTeamIndex : {0},
     draftType : DraftTypes,
     pickTimeLimit : {MaxTimeLimit},
     rosterPositions : ConfigRosterInputs]

\* The teams the setup screen builds, or no team at all.
ConfigTeamsInputs(s) == {MakeTeams(s.numberOfTeams, s.userTeamIndex), <<>>}

ConfigInitialize ==
    /\ \E s \in ConfigSettings : \E ts \in ConfigTeamsInputs(s) :
           initializeDraft(s, ts, AllPlayers)
    /\ UNCHANGED draftSettings

ConfigPick == RoomPick

ConfigUndo == RoomUndo

ConfigToggle == RoomToggle

NextConfig ==
    \/ ConfigInitialize
    \/ ConfigPick
    \/ ConfigUndo
    \/ ConfigToggle

SpecConfig == Init /\ [][NextConfig]_vars

(***************************************************************************)
(* SpecMerge: CSV files are loaded into a new player database.  The        *)
(* records are those the parser builds for a running back listed with and  *)
(* without a name suffix, with an empty team and with two teams, with two  *)
(* sets of projections, for the same name listed as a linebacker, and for  *)
(* a second player.  At most MaxRecords records are loaded altogether; the *)
(* last list may be merged a second time.                                  *)
(***************************************************************************)
DerrickHenry == <<"D", "e", "r", "r", "i", "c", "k", " ", "H", "e", "n", "r", "y">>
DerrickHenryJr == DerrickHenry \o <<" ", "J", "r", ".">>
LamarJackson == <<"L", "a", "m", "a", "r", " ", "J", "a", "c", "k", "s", "o", "n">>

NoTeam == <<>>
BAL == <<"B", "A", "L">>
TEN == <<"T", "E", "N">>

QB == <<"Q", "B">>
RB == <<"R", "B">>
LB == <<"L", "B">>

\* vorp, fps and projectedStats of a row, of which the model follows the
\* rushing yards and the receptions: a row without the receptions column
\* (safeParseFloat of a missing column is 0) and a row with larger numbers.
ProjectionInputs ==
    {[vorp |-> 8000, fps |-> 200000,
      projectedStats |-> [rushingYards |-> 1000, receptions |-> 0]],
     [vorp |-> 12500, fps |-> 250000,
      projectedStats |-> [rushingYards |-> 1200, receptions |-> 20]]}

\* csvParser.parseOffensivePlayers: the record of one row.
OffensiveRecord(name, team, position, projection) ==
    [id |-> generatePlayerId(name, team, position),
     name |-> name, team |-> team, position |-> position,
     vorp |-> projection.vorp, fps |-> projection.fps,
     projectedStats |-> projection.projectedStats]

\* csvParser.parseIDPPlayers: the record of one row.
IdpRecord(name, team, position, tier) ==
    [id |-> generatePlayerId(name, team, position),
     name |-> name, team |-> team, position |-> position,
     tier |-> tier,
     projectedStats |-> [tackles |-> 0]]

RecordInputs ==
    {OffensiveRecord(name, team, RB, projection) :
        name \in {DerrickHenry, DerrickHenryJr},
        team \in {NoTeam, BAL, TEN},
        projection \in ProjectionInputs}
    \cup {OffensiveRecord(LamarJackson, BAL, QB,
                          [vorp |-> 8000, fps |-> 200000,
                           projectedStats |-> [rushingYards |-> 1000,
                                               receptions |-> 0]])}
    \cup {IdpRecord(DerrickHenry, BAL, LB, tier) : tier \in {1, 2}}

\* The lists of n records.
RecordLists(n) == [1 .. n -> RecordInputs]

LoadFromCSVFiles ==
    \E n \in 1 .. (MaxRecords - load.records) :
        \E newPlayers \in RecordLists(n) :
            loadFromCSVFiles("load", newPlayers)

\* The same files are loaded again: the parser builds the same records.
LoadAgain ==
    /\ load.name = "load"
    /\ loadFromCSVFiles("again", load.newPlayers)

\* mergePlayersFromSources once more on the very list of the last call,
\* whose records the call may have written to.
MergeSameList ==
    /\ load.name = "load"
    /\ loadFromCSVFiles("same", imported)

NextMerge ==
    \/ LoadFromCSVFiles
    \/ LoadAgain
    \/ MergeSameList

SpecMerge == Init /\ [][NextMerge]_vars

(***************************************************************************)
(* SpecSettings: the draft room with the settings screen: while a session  *)
(* runs, the settings store is written to, the recommendations are         *)
(* regenerated and the session is reset.                                   *)
(***************************************************************************)
\* What the settings screen passes on: another number of teams, or a roster
\* without a quarterback slot.
SettingsUpdates ==
    {[numberOfTeams |-> MaxTeams],
     [rosterPositions |-> [QB |-> 0]]}

SettingsChange == \E updates \in SettingsUpdates : updateDraftSettings(updates)

SettingsSetup == RoomSetup

SettingsPick == RoomPick

SettingsUndo == RoomUndo

SettingsToggle == RoomToggle

SettingsTick == RoomTick

SettingsRegenerate == PrefsRegenerate

SettingsReset == resetDraft

NextSettings ==
    \/ SettingsSetup
    \/ SettingsChange
    \/ SettingsPick
    \/ SettingsUndo
    \/ SettingsToggle
    \/ SettingsTick
    \/ SettingsRegenerate
    \/ SettingsReset

SpecSettings == Init /\ [][NextSettings]_vars

(***************************************************************************)
(* SpecQuick: the draft room after the quick setup, whose draft position   *)
(* and number of teams are two independent selections.                     *)
(***************************************************************************)
\* quickSettings: userTeamIndex is draftPosition - 1, for a draft position
\* of 1 up to one more than the largest number of teams.
QuickSettings ==
    [numberOfTeams : 1 .. MaxTeams,
     userTeamIndex : 0 .. MaxTeams,
     draftType : DraftTypes,
     pickTimeLimit : 1 .. MaxTimeLimit,
     rosterPositions : {DefaultRosterPositions}]

\* QuickDraftSetup.handleQuickStart
QuickSetup == \E s \in QuickSettings : handleStartDraft(s, AllPlayers)

QuickPick == RoomPick

QuickUndo == RoomUndo

QuickToggle == RoomToggle

QuickTick == RoomTick

NextQuick ==
    \/ QuickSetup
    \/ QuickPick
    \/ QuickUndo
    \/ QuickToggle
    \/ QuickTick

SpecQuick == Init /\ [][NextQuick]_vars

(***************************************************************************)
(* SpecTimer: the draft room with its countdown, for pick time limits of   *)
(* more than one second, so that the clock is seen part of the way down.   *)
(***************************************************************************)
TimerSettings ==
    [numberOfTeams : 1 .. MaxTeams,
     userTeamIndex : {0},
     draftType : DraftTypes,
     pickTimeLimit : 1 .. MaxTimerLimit,
     rosterPositions : {DefaultRosterPositions}]

TimerSetup == \E s \in TimerSettings : handleStartDraft(s, AllPlayers)

TimerPick == RoomPick

TimerUndo == RoomUndo

TimerToggle == RoomToggle

\* The callback of the interval: updateTimer(timeRemaining - 1), with the
\* timeRemaining the interval closed over.
TimerTick == RoomTick

NextTimer ==
    \/ TimerSetup
    \/ TimerPick
    \/ TimerUndo
    \/ TimerToggle
    \/ TimerTick

SpecTimer == Init /\ [][NextTimer]_vars

(***************************************************************************)
(* Vocabulary of the properties.                                           *)
(***************************************************************************)
PickOps == {"makePick", "markPlayerAsDrafted"}

Initialized == settings # Null

\* How often player p occurs in the sequence s.
Occurrences(s, p) == Cardinality({i \in DOMAIN s : s[i] = p})

\* The roster slots, over all teams, that hold player p.
RosterSlots(ts, p) ==
    UNION {{<<t, i>> : i \in {j \in DOMAIN ts[t].roster : ts[t].roster[j] = p}} :
           t \in DOMAIN ts}

RosterUnion(ts) == UNION {Range(ts[t].roster) : t \in DOMAIN ts}

\* The players of the log entries of one team, in log order.
RECURSIVE PlayersLoggedFor(_, _)
PlayersLoggedFor(log, teamIndex) ==
    IF log = <<>> THEN <<>>
    ELSE IF Head(log).teamIndex = teamIndex
         THEN <<Head(log).player>> \o PlayersLoggedFor(Tail(log), teamIndex)
         ELSE PlayersLoggedFor(Tail(log), teamIndex)

LoggedPlayers(log) == {log[i].player : i \in DOMAIN log}

\* The turn-order function of the pick number: round and position are
\* 0-based, odd rounds of a snake draft run backwards.
TurnOrder(pickNumber, numberOfTeams, draftType) ==
    LET round == (pickNumber - 1) \div numberOfTeams
        posInRound == (pickNumber - 1) % numberOfTeams
    IN  IF draftType = "snake" /\ round % 2 = 1
        THEN numberOfTeams - 1 - posInRound
        ELSE posInRound

(***************************************************************************)
(* C1 .. C10                                                               *)
(***************************************************************************)

\* C1: in every state of an initialized session every player of the initial
\* pool is either available or on exactly one roster, exactly once, and no
\* other player is available or rostered.
C1_PoolPartition ==
    Initialized =>
        /\ Range(availablePlayers) \cup RosterUnion(teams) \subseteq Range(initialPlayers)
        /\ \A p \in Range(initialPlayers) :
               Occurrences(availablePlayers, p) + Cardinality(RosterSlots(teams, p)) = 1

\* C2: in a snake draft driven through the draft room (makePick on the
\* user's turn, markPlayerAsDrafted for the team on the clock otherwise,
\* undo), currentTeamIndex is always the snake formula of currentPick.
C2_SnakeFormulaAgrees ==
    (Initialized /\ settings.draftType = "snake") =>
        currentTeamIndex = TurnOrder(currentPick, settings.numberOfTeams, "snake")

\* C3: a recorded pick of an available player, for any team index,
\* immediately followed by undoLastPick restores isActive, currentPick,
\* currentTeamIndex, the pick log, the set of available players and every
\* roster to their values before the pick.
C3_PickThenUndoRestores ==
    [][(/\ op.name \in PickOps
        /\ op.player \in Range(pre.availablePlayers)
        /\ Len(picks) = Len(pre.picks) + 1
        /\ op'.name = "undoLastPick")
       => (/\ isActive' = pre.isActive
           /\ currentPick' = pre.currentPick
           /\ currentTeamIndex' = pre.currentTeamIndex
           /\ picks' = pre.picks
           /\ Range(availablePlayers') = Range(pre.availablePlayers)
           /\ teams' = pre.teams)]_vars

\* C4: makePick or markPlayerAsDrafted for a player that is not available
\* in an initialized session leaves the whole session state unchanged.
C4_UnavailablePickRejected ==
    (/\ op.name \in PickOps
     /\ pre.settings # Null
     /\ op.player \notin Range(pre.availablePlayers))
    => Session = pre

\* C5: every roster is the sequence of players the log records for that
\* team, and the available players are the initial pool without the logged
\* players.
C5_LogReconstructs ==
    Initialized =>
        /\ \A t \in DOMAIN teams : teams[t].roster = PlayersLoggedFor(picks, t - 1)
        /\ Range(availablePlayers) = Range(initialPlayers) \ LoggedPlayers(picks)

\* C6: in a linear draft, right after makePick or markPlayerAsDrafted (for
\* whatever team index the caller passes) currentTeamIndex is
\* (currentPick - 1) mod numberOfTeams.
C6_LinearFormulaAgrees ==
    (/\ Initialized
     /\ settings.draftType = "linear"
     /\ op.name \in PickOps)
    => currentTeamIndex = (currentPick - 1) % settings.numberOfTeams

\* C7: in a snake draft, when numberOfTeams picks are on the log the team on
\* the clock for pick numberOfTeams + 1 is the team logged on pick
\* numberOfTeams, whichever of makePick or markPlayerAsDrafted recorded it.
C7_SnakeTurnAround ==
    (/\ Initialized
     /\ settings.draftType = "snake"
     /\ Len(picks) = settings.numberOfTeams)
    => /\ currentPick = settings.numberOfTeams + 1
       /\ currentTeamIndex = picks[settings.numberOfTeams].teamIndex

\* C7 happens: the last pick of the first round has just been recorded by
\* makePick in a snake draft of at least two teams.
C7_Witness_TurnAroundByMakePick ==
    /\ Initialized
    /\ settings.draftType = "snake"
    /\ settings.numberOfTeams >= 2
    /\ Len(picks) = settings.numberOfTeams
    /\ op.name = "makePick"

\* C8 as stated: in the 12-team snake draft, when 12 picks are on the log,
\* pick 13 is assigned to team index 0.
C8_Pick13ToTeam0 ==
    (Initialized /\ settings.numberOfTeams = 12 /\ Len(picks) = 12)
    => (currentPick = 13 /\ currentTeamIndex = 0)

\* C8 amended: in the 12-team snake draft, when 12 picks are on the log,
\* pick 13 is assigned to team index 11, the team that made pick 12.
C8_Pick13ToTeam11 ==
    (Initialized /\ settings.numberOfTeams = 12 /\ Len(picks) = 12)
    => (currentPick = 13 /\ currentTeamIndex = 11 /\ picks[12].teamIndex = 11)

\* C8 happens: pick 1 was made by team 0 and the twelfth pick has just been
\* recorded.
C8_Witness_TwelvePicks ==
    /\ Initialized
    /\ settings.numberOfTeams = 12
    /\ Len(picks) = 12
    /\ picks[1].teamIndex = 0
    /\ op.name \in PickOps

\* C9: undoLastPick on an empty pick log changes no field of the session.
C9_UndoOnEmptyLogIsNoOp ==
    (op.name = "undoLastPick" /\ pre.picks = <<>>) => Session = pre

\* C9 happens: undoLastPick has run on the empty log of an initialized
\* session.
C9_Witness_UndoOnEmptyLog ==
    /\ op.name = "undoLastPick"
    /\ pre.picks = <<>>
    /\ Initialized

\* C10: right after initializeDraft(settings, teams, players) the available
\* players are the players passed, the log is empty, currentPick is 1,
\* currentTeamIndex is 0, timeRemaining is settings.pickTimeLimit and the
\* draft is not active.
C10_InitializeDraftResets ==
    op.name = "initializeDraft" =>
        /\ availablePlayers = op.players
        /\ picks = <<>>
        /\ currentPick = 1
        /\ currentTeamIndex = 0
        /\ timeRemaining = settings.pickTimeLimit
        /\ isActive = FALSE

\* C10 happens: initializeDraft has run in the middle of an active draft.
C10_Witness_InitializeMidDraft ==
    /\ op.name = "initializeDraft"
    /\ pre.isActive
    /\ pre.picks # <<>>
    /\ pre.currentPick > 1

(***************************************************************************)
(* C11 .. C20                                                              *)
(***************************************************************************)

\* C11: startDraft changes only isActive, to TRUE, and pauseDraft changes
\* only isActive, to FALSE: settings, rosters, available players, pick log,
\* currentPick, currentTeamIndex and timeRemaining keep their values.
C11_StartPauseOnlyToggle ==
    /\ op.name = "startDraft" => Session = [pre EXCEPT !.isActive = TRUE]
    /\ op.name = "pauseDraft" => Session = [pre EXCEPT !.isActive = FALSE]

\* C11 happens: pauseDraft has run on an active draft with a pick on the log
\* and a clock that had been changed.
C11_Witness_PauseMidDraft ==
    /\ op.name = "pauseDraft"
    /\ pre.isActive
    /\ pre.picks # <<>>
    /\ pre.timeRemaining # DefaultTimeRemaining

\* C12: updateTimer changes only timeRemaining; when the countdown of the
\* draft room reaches 0 the pick log, currentPick, currentTeamIndex, the
\* rosters and the available players are what they were.
C12_TimerOnlyTimeRemaining ==
    op.name = "updateTimer" =>
        Session = [pre EXCEPT !.timeRemaining = timeRemaining]

\* C12 happens: the countdown of an active draft has just reached 0 while
\* players are still available.
C12_Witness_CountdownReachedZero ==
    /\ op.name = "updateTimer"
    /\ pre.isActive
    /\ pre.timeRemaining > 0
    /\ timeRemaining = 0
    /\ availablePlayers # <<>>

\* The number of picks of a whole draft: numberOfTeams x total roster slots.
TotalPicks(s) == s.numberOfTeams * TotalRosterSlots(s)

\* C13: in a session with at least one roster slot, a makePick or
\* markPlayerAsDrafted called when currentPick is already beyond
\* numberOfTeams x total roster slots leaves the session unchanged, and the
\* pick log never holds more than that many entries.
C13_CompleteDraftRejectsPicks ==
    /\ (/\ op.name \in PickOps
        /\ pre.settings # Null
        /\ TotalRosterSlots(pre.settings) >= 1
        /\ pre.currentPick > TotalPicks(pre.settings))
       => Session = pre
    /\ (Initialized /\ TotalRosterSlots(settings) >= 1)
       => Len(picks) <= TotalPicks(settings)

\* C14: initializeDraft called with an empty teams list or with roster
\* counts that sum to zero leaves the store as it was.
C14_ConfigErrorRejected ==
    (/\ op.name = "initializeDraft"
     /\ \/ Len(op.teams) = 0
        \/ TotalRosterSlots(op.settings) = 0)
    => Session = pre

\* C15: whatever single-note operations have run, with whatever players and
\* arguments, no note has isTarget and isAvoid both true.
C15_TargetAvoidExclusive ==
    \A i \in DOMAIN playerNotes :
        ~(playerNotes[i].isTarget /\ playerNotes[i].isAvoid)

\* C15 happens: setPlayerTarget has just marked as target a player whose
\* note was marked avoid, and setPlayerAvoid or setPlayerTarget has created
\* the note of another player.
C15_Witness_TargetSetOnAvoidedPlayer ==
    /\ op.name = "setPlayerTarget"
    /\ op.note # <<>>
    /\ op.note[1].isAvoid
    /\ isPlayerTarget(op.player)
    /\ Len(playerNotes) >= 2

\* The factor, in tenths, that applies when the condition holds.
Tenths(condition, factor) == IF condition THEN factor ELSE 10

Called == op.name = "calculateAdjustedValue"

Unmarked(notes, player) ==
    UpdatedPlayerNote(notes, player, [isTarget |-> FALSE, isAvoid |-> FALSE])

\* C17: for every base value, the adjusted value of a player marked target
\* is strictly greater than that of the same player unmarked, and the
\* adjusted value of a player marked avoid is strictly smaller.
C17_MarksAreStrictlyMonotonic ==
    Called =>
        LET unmarked == AdjustedValue(Unmarked(playerNotes, adjusted.player),
                                      adjusted.player, adjusted.baseValue)
        IN  /\ isPlayerTarget(adjusted.player) => adjusted.value > unmarked
            /\ isPlayerAvoid(adjusted.player) => adjusted.value < unmarked

\* C18: for a player without a note, calculateAdjustedValue is the base
\* value x 1.1 rounded to two decimals when the player's team is a favorite
\* team and the base value x 0.9 rounded when it is an avoided team.
C18_TeamFactorsWithoutNote ==
    (Called /\ ~HasNote(playerNotes, adjusted.player)) =>
        LET team == PlayerTeam(adjusted.player)
        IN  /\ (team \in favoriteTeams /\ team \notin avoidTeams)
                   => adjusted.value = RoundToCents(adjusted.baseValue * 11, 10)
            /\ (team \in avoidTeams /\ team \notin favoriteTeams)
                   => adjusted.value = RoundToCents(adjusted.baseValue * 9, 10)

\* The operations that end by generating the recommendations.
GeneratingOps ==
    {"initializeDraft", "makePick", "markPlayerAsDrafted", "undoLastPick",
     "generateRecommendations"}

\* generateRecommendations has just run on the session and set the list.
Generated ==
    /\ op.name \in GeneratingOps
    /\ Initialized
    /\ teams # <<>>
    /\ op.name = "undoLastPick" => pre.picks # <<>>

Recommended == {recommendations[i].player : i \in DOMAIN recommendations}

\* C19: right after generateRecommendations has run, no recommended player
\* is marked avoid.
C19_NoAvoidedPlayerRecommended ==
    Generated => \A p \in Recommended : ~isPlayerAvoid(p)

\* The user's roster.
UserRoster == teams[settings.userTeamIndex + 1].roster

\* The user's roster holds rosterPositions[position] or more players at the
\* position of p.
PositionFull(p) ==
    PositionCount(UserRoster, PlayerPosition(p)) >=
        settings.rosterPositions[PlayerPosition(p)]

\* p is flex-eligible and the user's RB+WR+TE count is below the
\* RB+WR+TE+W-R-T slot total.
FlexOpen(p) ==
    /\ PlayerPosition(p) \in FlexPositions
    /\ FlexCount(UserRoster) <
           settings.rosterPositions["RB"] + settings.rosterPositions["WR"]
           + settings.rosterPositions["TE"] + settings.rosterPositions["W-R-T"]

\* C20: right after generateRecommendations has run, an available player
\* that is not marked avoid is recommended if it is marked target or holds a
\* custom rank, and otherwise exactly when its position is not full or it can
\* still fill a flex slot (the available players are fewer than the limit of
\* the list).
C20_CandidateFilter ==
    Generated =>
        \A p \in Range(availablePlayers) :
            ~isPlayerAvoid(p) =>
                (p \in Recommended <=>
                    \/ isPlayerTarget(p)
                    \/ getCustomRanking(p) # <<>>
                    \/ ~PositionFull(p)
                    \/ FlexOpen(p))

(***************************************************************************)
(* C21 .. C30                                                              *)
(***************************************************************************)
\* C21: right after generateRecommendations has run, for entries i < j of
\* the list: j is a target only if i is one; with the same target status, j
\* fills an open roster position only if i does; and with the same target
\* status and the same need, the value of i is at least the value of j.
C21_RecommendationOrder ==
    Generated =>
        \A i, j \in DOMAIN recommendations :
            i < j =>
                LET a == recommendations[i]
                    b == recommendations[j]
                    sameTarget == isPlayerTarget(a.player) = isPlayerTarget(b.player)
                    sameNeed == PositionFull(a.player) = PositionFull(b.player)
                IN  /\ isPlayerTarget(b.player) => isPlayerTarget(a.player)
                    /\ sameTarget /\ ~PositionFull(b.player) => ~PositionFull(a.player)
                    /\ sameTarget /\ sameNeed => a.value >= b.value

\* C22: when generateRecommendations has run on a configured session with
\* no available player, the recommendations are the empty list.
C22_EmptyPoolGivesEmptyList ==
    Generated /\ availablePlayers = <<>> => recommendations = <<>>

\* C22 witness: the last available player has just been picked, and the
\* list is regenerated.
C22_Witness_LastPlayerPicked ==
    /\ Generated
    /\ op.name \in {"makePick", "markPlayerAsDrafted"}
    /\ pre.availablePlayers # <<>>
    /\ availablePlayers = <<>>

\* The team conflicts and all the conflicts of the last merge call.
TeamConflicts ==
    {i \in DOMAIN mergeResult.conflicts : mergeResult.conflicts[i].conflictType = "team"}

\* The last call was a first load of the list given into an empty pool.
FirstLoadOf(newPlayers) ==
    /\ load.name = "load"
    /\ load.players = EmptyMap
    /\ load.newPlayers = newPlayers

\* C23: merging {Derrick Henry, BAL} of source A with {Derrick Henry Jr.,
\* no team} of source B gives one canonical player, of team BAL, and no
\* conflict.
C23_SuffixAndEmptyTeamScenario ==
    \A a, b \in RecordInputs :
        /\ a.name = DerrickHenry /\ a.team = BAL /\ a.position = RB
        /\ b.name = DerrickHenryJr /\ b.team = NoTeam /\ b.position = RB
        /\ FirstLoadOf(<<a, b>>)
        => /\ Len(mergeResult.mergedPlayers) = 1
           /\ Cardinality(DOMAIN database) = 1
           /\ mergeResult.mergedPlayers[1].team = BAL
           /\ mergeResult.conflicts = <<>>

\* The last call merged, once more, the list of the call before it.
MergedTwice == load.name \in {"again", "same"}

\* C24: merging the same list a second time leaves the pool as the first
\* merge left it and returns the same players and as many conflicts.
C24_MergeIdempotent ==
    MergedTwice =>
        /\ database = load.players
        /\ mergeResult.mergedPlayers = load.result.mergedPlayers
        /\ Len(mergeResult.conflicts) = Len(load.result.conflicts)

\* C24 witness: the very list of a merge that found duplicates, logged a
\* conflict and produced a player that is none of the records has been
\* merged again.
C24_Witness_SameListMergedAgain ==
    /\ load.name = "same"
    /\ mergeResult.duplicatesFound > 0
    /\ mergeResult.conflicts # <<>>
    /\ \E i \in DOMAIN mergeResult.mergedPlayers :
           mergeResult.mergedPlayers[i] \notin Range(load.newPlayers)

\* The list handed to the last merge call.
Loaded == load.newPlayers

\* For every record of the list, the position of the base record of its
\* duplicate group: the first record whose name normalizes to the same name.
BaseOf(list) ==
    LET names == [i \in DOMAIN list |-> normalizePlayerName(list[i].name)]
    IN  [j \in DOMAIN list |->
            CHOOSE i \in 1 .. j :
                /\ names[i] = names[j]
                /\ \A k \in 1 .. (i - 1) : names[k] # names[j]]

\* The later records of the group of base record b.
Later(base, b) == {j \in DOMAIN base : j # b /\ base[j] = b}

\* The merged player the last call returned for the group of base record
\* b: the groups are returned in the order of their base records.
MergedOf(base, b) ==
    mergeResult.mergedPlayers[Cardinality({c \in Range(base) : c <= b})]

\* The team the claim gives the merged player of the group of base b.
ExpectedTeam(base, b) ==
    LET named == {j \in Later(base, b) : Loaded[j].team # <<>>}
    IN  IF Loaded[b].team # <<>> THEN Loaded[b].team
        ELSE IF named # {}
             THEN Loaded[CHOOSE j \in named : \A k \in named : j <= k].team
             ELSE <<>>

\* C25: after a merge, the team of every merged player is the team of the
\* base record of its group when that is not empty, and otherwise the first
\* non-empty team among the later records of the group; and there are as
\* many team conflicts as later records whose team differs from the team
\* of their base record.
C25_MergedTeam ==
    load.name # "create" =>
        LET base == BaseOf(Loaded)
        IN  /\ Len(mergeResult.mergedPlayers) = Cardinality(Range(base))
            /\ \A b \in Range(base) : MergedOf(base, b).team = ExpectedTeam(base, b)
            /\ Cardinality(TeamConflicts) =
                   Cardinality({j \in DOMAIN Loaded :
                                   Loaded[j].team # Loaded[base[j]].team})

\* C25 witness: a group of three records has been merged whose base record
\* has no team and whose later records name two different teams.
C25_Witness_EmptyBaseTwoTeams ==
    /\ load.name = "load"
    /\ Len(Loaded) = 3
    /\ Range(BaseOf(Loaded)) = {1}
    /\ Loaded[1].team = NoTeam
    /\ Loaded[2].team = BAL
    /\ Loaded[3].team = TEN

\* The value the claim gives a numeric projection field of the merged
\* player of a base record holding base and a duplicate holding incoming:
\* the incoming value when the base holds none, the larger one when both
\* hold one.
LargerOrPresent(base, incoming) ==
    IF base = 0 THEN incoming
    ELSE IF incoming = 0 THEN base
    ELSE IF incoming > base THEN incoming ELSE base

\* C26: after two duplicate offensive records have been merged, vorp, fps
\* and every projectedStats field of the merged player hold the larger of
\* the two values, and the incoming value where the base record holds 0.
C26_LargerProjectionKept ==
    /\ load.name # "create"
    /\ Len(Loaded) = 2
    /\ Range(BaseOf(Loaded)) = {1}
    /\ "vorp" \in DOMAIN Loaded[1]
    /\ "vorp" \in DOMAIN Loaded[2]
    => LET merged == mergeResult.mergedPlayers[1]
       IN  /\ merged.vorp = LargerOrPresent(Loaded[1].vorp, Loaded[2].vorp)
           /\ merged.fps = LargerOrPresent(Loaded[1].fps, Loaded[2].fps)
           /\ \A k \in DOMAIN merged.projectedStats :
                  merged.projectedStats[k] =
                      LargerOrPresent(Loaded[1].projectedStats[k],
                                      Loaded[2].projectedStats[k])

\* C27: the pool holds at most one player per normalized name.
C27_OnePlayerPerNormalizedName ==
    LET names == [id \in DOMAIN database |-> normalizePlayerName(database[id].name)]
    IN  \A a, b \in DOMAIN database : names[a] = names[b] => a = b

\* C28: an operation other than initializeDraft and resetDraft leaves the
\* settings of the session as they were.
C28_SettingsFrozen ==
    op.name \notin {"create", "initializeDraft", "resetDraft"} =>
        settings = pre.settings

\* C28 witness: during a session the settings store has been given other
\* settings than the session's.
C28_Witness_SettingsStoreChanged ==
    /\ op.name = "updateDraftSettings"
    /\ Initialized
    /\ picks # <<>>
    /\ draftSettings # settings

\* The teams of the session marked as the user's.
UserTeams == {i \in DOMAIN teams : teams[i].isUser}

\* C29: in a session started from a setup screen exactly one team is the
\* user's, the team at index settings.userTeamIndex.
C29_ExactlyOneUserTeam ==
    Initialized => UserTeams = {settings.userTeamIndex + 1}

\* s is a prefix of r.
IsPrefix(s, r) == Len(s) <= Len(r) /\ SubSeq(r, 1, Len(s)) = s

\* The teams whose roster the last operation changed.
ChangedRosters ==
    {i \in DOMAIN teams : teams[i].roster # pre.teams[i].roster}

\* The players the last operation took from the roster of team i.
RemovedFrom(i) == Range(pre.teams[i].roster) \ Range(teams[i].roster)

C31_CountdownOnlyWhileActive ==
    /\ ~isActive => interval = Null
    /\ op.name = "updateTimer" => pre.isActive
    /\ op.name = "pauseDraft" =>
           /\ picks = pre.picks
           /\ teams = pre.teams
           /\ availablePlayers = pre.availablePlayers
           /\ currentPick = pre.currentPick
           /\ currentTeamIndex = pre.currentTeamIndex

\* C31 witness: a draft with a pick on its log has been paused with the
\* clock part of the way down.
C31_Witness_PausedPartWayDown ==
    /\ Initialized
    /\ op.name = "pauseDraft"
    /\ picks # <<>>
    /\ timeRemaining > 0
    /\ timeRemaining < settings.pickTimeLimit

C33_LogNumberedContiguously ==
    /\ \A i \in DOMAIN picks : picks[i].pickNumber = i
    /\ currentPick = Len(picks) + 1

\* C33 witness: two picks were on the log, recorded one by makePick and
\* one by markPlayerAsDrafted, and the second has been undone.
C33_Witness_SecondPickUndone ==
    /\ op.name = "undoLastPick"
    /\ Len(pre.picks) = 2
    /\ pre.picks[1].teamIndex # pre.picks[2].teamIndex
    /\ picks = <<pre.picks[1]>>
    /\ currentPick = 2

\* C34: every recommended player is one of the available players.
C34_RecommendedPlayersAreAvailable ==
    \A i \in DOMAIN recommendations :
        recommendations[i].player \in Range(availablePlayers)

\* C35: the interval of the timer effect always holds the stored
\* timeRemaining, and every tick leaves timeRemaining 1 below what the store
\* held before it, a pick that came in between included.
C35_TickLowersStoredValueByOne ==
    /\ interval # Null => interval.timeRemaining = timeRemaining
    /\ op.name = "updateTimer" => timeRemaining = pre.timeRemaining - 1

\* C35 witness: a pick has come while the clock was part of the way down,
\* so that an interval over the lower value was waiting, and the interval
\* that waits now is over the limit the pick has put the clock back to.
C35_Witness_PickWhileIntervalWaits ==
    /\ op.name \in PickOps
    /\ pre.isActive
    /\ pre.timeRemaining > 0
    /\ pre.timeRemaining < timeRemaining
    /\ interval # Null

\* C36: while there are no settings the pick log is empty and currentPick
\* is 1, whatever makePick and markPlayerAsDrafted are called with.
C36_NoPickWhileUninitialized ==
    ~Initialized => /\ picks = <<>>
                    /\ currentPick = 1

\* Whether the team on the clock before the last operation was the user's.
WasUserTurn ==
    /\ pre.currentTeamIndex + 1 \in DOMAIN pre.teams
    /\ pre.teams[pre.currentTeamIndex + 1].isUser

\* C37: in the draft room a pick comes upon an active draft only, by
\* makePick when the team on the clock is the user's and by
\* markPlayerAsDrafted when it is not, and the entry it adds to the log
\* carries the currentTeamIndex from before the pick.
C37_PickForTeamOnTheClock ==
    op.name \in PickOps =>
        /\ pre.isActive
        /\ op.name = "makePick" <=> WasUserTurn
        /\ Len(picks) = Len(pre.picks) + 1
        /\ SubSeq(picks, 1, Len(pre.picks)) = pre.picks
        /\ picks[Len(picks)].teamIndex = pre.currentTeamIndex

\* C37 witness: the second pick has been recorded for the other team, the
\* team with index 1, which was on the clock.
C37_Witness_PickOfOtherTeam ==
    /\ op.name = "markPlayerAsDrafted"
    /\ Len(picks) = 2
    /\ pre.currentTeamIndex = 1
    /\ picks[2].teamIndex = 1

\* C38: in the draft room timeRemaining is never negative and, once the
\* session is configured, never above the pickTimeLimit of its settings; no
\* interval waits on a clock at 0; and the only operations that raise
\* timeRemaining are initializeDraft, makePick and markPlayerAsDrafted, which
\* raise it to the limit.
C38_ClockWithinLimit ==
    /\ timeRemaining >= 0
    /\ Initialized => timeRemaining <= settings.pickTimeLimit
    /\ timeRemaining = 0 => interval = Null
    /\ timeRemaining > pre.timeRemaining =>
           /\ op.name \in PickOps \cup {"initializeDraft"}
           /\ timeRemaining = settings.pickTimeLimit

\* C38 witness: the countdown of an active, configured draft has reached 0
\* and stopped.
C38_Witness_ClockStoppedAtZero ==
    /\ Initialized
    /\ isActive
    /\ op.name = "updateTimer"
    /\ settings.pickTimeLimit = MaxTimerLimit
    /\ timeRemaining = 0
    /\ interval = Null

====
